---- MODULE Spec2Model ----
(***************************************************************************)
(* A model of baselines/models/xlnet/run_classifier.py: main() run         *)
(* repeatedly over one persistent output directory, the two record writers *)
(* (file_based_convert_examples_to_features and its inews variant), the    *)
(* record reader built by file_based_input_fn_builder, and the dataset     *)
(* adapters main() calls.                                                  *)
(*                                                                         *)
(* Strings of the program are TLA+ strings.  A Python float is a           *)
(* fixed-point number with FloatFracBits binary places (a count of units   *)
(* of 2^-FloatFracBits); a float32 keeps Float32Bits significant bits, so  *)
(* storing a Python float in a tf.train.FloatList rounds it.               *)
(***************************************************************************)
EXTENDS Integers, Sequences, FiniteSets, TLC

(***************************************************************************)
(* Bounds of the explored instances.                                       *)
(***************************************************************************)
MaxExamples == 10      \* data rows of dev.txt in the large evaluation runs
MaxBatch == 4          \* eval_batch_size ranges over 1..MaxBatch
MaxTrain == 2          \* data rows of train.txt
MaxPasses == 2         \* num_passes ranges over 1..MaxPasses
MaxSmall == 2          \* data rows of the files of the small runs
MaxPathRuns == 2       \* runs of main() in the container-path specification
MaxRows == 2           \* rows of the files given to an adapter called directly
MaxCols == 4           \* columns of such a row
MaxSeqLength == 6      \* largest max_seq_length given to the encoder called directly
MaxTokens == 4         \* longest token sequence given to the truncation called directly
MaxCkpt == 3           \* files of model_dir
MaxMetric == 2         \* largest value of the primary metric

(***************************************************************************)
(* Program constants.                                                      *)
(***************************************************************************)
CLS_ID == 3
SEP_ID == 4
FloatFracBits == 30     \* binary places the model keeps of a Python float
Float32Bits == 24       \* significand bits of the float32 of a FloatList
FloatUnit == 2 ^ FloatFracBits

None == "<None>"

Range(s) == {s[i] : i \in DOMAIN s}

\* A variant of Repeat: num_passes is ignored.
Repeat_Once(s, k) == s

RECURSIVE Repeat(_, _)
\* Python's list * k for k >= 1.
Repeat(s, k) == IF k <= 1 THEN s ELSE s \o Repeat(s, k - 1)

RECURSIVE Concat(_)
\* The concatenation of a sequence of sequences, in order.
Concat(ss) == IF ss = <<>> THEN <<>> ELSE Head(ss) \o Concat(Tail(ss))

RECURSIVE SeqSum(_)
SeqSum(s) == IF s = <<>> THEN 0 ELSE Head(s) + SeqSum(Tail(s))

\* The index of the first occurrence of v in s, 0 when absent.
IndexOf(s, v) ==
    IF \E i \in DOMAIN s : s[i] = v
    THEN CHOOSE i \in DOMAIN s : s[i] = v /\ \A j \in 1..(i - 1) : s[j] # v
    ELSE 0

(***************************************************************************)
(* Numbers.  float(x) of an int, int(b) of a bool, and the rounding of a   *)
(* Python float to the float32 a FloatList stores (round half to even).    *)
(***************************************************************************)
FloatOfInt(n) == n * FloatUnit

BoolToInt(b) == IF b THEN 1 ELSE 0

RECURSIVE Float32Ulp(_)
\* The distance between neighbouring float32 values around u >= 0, in units.
Float32Ulp(u) == IF u < 2 ^ Float32Bits THEN 1 ELSE 2 * Float32Ulp(u \div 2)

\* The float32 nearest to u >= 0, ties to the even significand.
ToFloat32(u) ==
    LET ulp == Float32Ulp(u)
        q == u \div ulp
        r == u % ulp
    IN  IF 2 * r < ulp THEN q * ulp
        ELSE IF 2 * r > ulp THEN (q + 1) * ulp
        ELSE IF q % 2 = 0 THEN q * ulp ELSE (q + 1) * ulp

\* The strings float(s) accepts, among those that occur in the data files.
IsFloatString(s) == s \in {"0", "1", "0.5", "0.1"}

\* float(s) of the label strings that occur in the data files: the multiple
\* of 2^-FloatFracBits nearest to the decimal.
ParseFloat(s) ==
    CASE s = "0" -> FloatOfInt(0)
      [] s = "1" -> FloatOfInt(1)
      [] s = "0.5" -> FloatUnit \div 2
      [] s = "0.1" -> (FloatUnit + 5) \div 10

(***************************************************************************)
(* Examples.                                                               *)
(***************************************************************************)
InputExample(guid, text_a, text_b, label) ==
    [cls |-> "InputExample", guid |-> guid, text_a |-> text_a,
     text_b |-> text_b, label |-> label]

PaddingInputExample == [cls |-> "PaddingInputExample"]

IsPadding(example) == example.cls = "PaddingInputExample"

(***************************************************************************)
(* The tokenizer boundary: preprocess_text lower-cases when FLAGS.uncased, *)
(* encode_ids maps a text to its sentence pieces.                          *)
(***************************************************************************)
preprocess_text(text, lower) ==
    IF lower /\ text = "A" THEN "a"
    ELSE IF lower /\ text = "B b" THEN "b b"
    ELSE text

encode_ids(text) ==
    CASE text = "a" -> <<11>>
      [] text = "A" -> <<12>>
      [] text = "b b" -> <<13, 13>>
      [] text = "B b" -> <<14, 13>>
      [] text = "c c c" -> <<15, 15, 15>>
      [] text = "d d d d" -> <<16, 16, 16, 16>>
      [] OTHER -> <<>>

tokenize_fn(text, uncased) == encode_ids(preprocess_text(text, uncased))

(***************************************************************************)
(* The feature encoder (classifier_utils.convert_single_example of the     *)
(* xlnet directory).                                                       *)
(***************************************************************************)
NoLabelList == <<>>    \* label_list = None, the regression setting

InputFeatures(input_ids, input_mask, segment_ids, label_id, is_real_example) ==
    [input_ids |-> input_ids, input_mask |-> input_mask,
     segment_ids |-> segment_ids, label_id |-> label_id,
     is_real_example |-> is_real_example]

LabelNotFoundError == [error |-> "LabelNotFoundError"]

IsError(v) == "error" \in DOMAIN v

Zeros(n) == [i \in 1..n |-> 0]

Ones(n) == [i \in 1..n |-> 1]

\* A variant of pop_longer: always takes the token from tokens_a.
pop_longer_FirstOnly(tokens_a, tokens_b) ==
    IF tokens_a # <<>>
    THEN <<SubSeq(tokens_a, 1, Len(tokens_a) - 1), tokens_b>>
    ELSE <<tokens_a, SubSeq(tokens_b, 1, Len(tokens_b) - 1)>>

\* One pass of the truncation loop: one token off the longer sequence, off
\* tokens_b on a tie.
pop_longer(tokens_a, tokens_b) ==
    IF Len(tokens_a) > Len(tokens_b)
    THEN <<SubSeq(tokens_a, 1, Len(tokens_a) - 1), tokens_b>>
    ELSE <<tokens_a, SubSeq(tokens_b, 1, Len(tokens_b) - 1)>>

RECURSIVE truncate_seq_pair(_, _, _)
\* Removes one token at a time from the longer sequence (from tokens_b on a
\* tie) until the pair fits max_length.
truncate_seq_pair(tokens_a, tokens_b, max_length) ==
    IF Len(tokens_a) + Len(tokens_b) <= max_length \/ (tokens_a = <<>> /\ tokens_b = <<>>)
    THEN <<tokens_a, tokens_b>>
    ELSE LET popped == pop_longer(tokens_a, tokens_b)
         IN  truncate_seq_pair(popped[1], popped[2], max_length)

\* A variant of encode_tokens: the arrays are not padded.
encode_tokens_NoPad(tokens_a, tokens_b, paired, label_id, max_seq_length) ==
    LET pair == truncate_seq_pair(tokens_a, tokens_b, max_seq_length - 3)
        a == IF paired THEN pair[1]
             ELSE IF Len(tokens_a) > max_seq_length - 2
                  THEN SubSeq(tokens_a, 1, max_seq_length - 2) ELSE tokens_a
        b == IF paired THEN pair[2] ELSE <<>>
        ids == <<CLS_ID>> \o a \o <<SEP_ID>> \o (IF paired THEN b \o <<SEP_ID>> ELSE <<>>)
        seg == Zeros(Len(a) + 2) \o (IF paired THEN Ones(Len(b) + 1) ELSE <<>>)
    IN  InputFeatures(ids, Ones(Len(ids)), seg, label_id, TRUE)

\* Steps 3 to 6 of the encoder on token sequences: reserve the marker slots,
\* truncate, assemble, pad on the right with id 0.
encode_tokens(tokens_a, tokens_b, paired, label_id, max_seq_length) ==
    LET pair == truncate_seq_pair(tokens_a, tokens_b, max_seq_length - 3)
        a == IF paired THEN pair[1]
             ELSE IF Len(tokens_a) > max_seq_length - 2
                  THEN SubSeq(tokens_a, 1, max_seq_length - 2) ELSE tokens_a
        b == IF paired THEN pair[2] ELSE <<>>
        ids == <<CLS_ID>> \o a \o <<SEP_ID>> \o (IF paired THEN b \o <<SEP_ID>> ELSE <<>>)
        seg == Zeros(Len(a) + 2) \o (IF paired THEN Ones(Len(b) + 1) ELSE <<>>)
        pad == max_seq_length - Len(ids)
    IN  InputFeatures(ids \o Zeros(pad), Ones(Len(ids)) \o Zeros(pad),
                      seg \o Zeros(pad), label_id, TRUE)

\* Step 7: whether the label maps, and the label id it maps to.
\* A variant of label_known: every label passes.
label_known_Always(example, label_list) == TRUE

label_known(example, label_list) ==
    \/ label_list = NoLabelList
    \/ example.label = None
    \/ IndexOf(label_list, example.label) # 0

label_id_of(example, label_list) ==
    IF label_list = NoLabelList
    THEN IF example.label = None THEN FloatOfInt(0) ELSE ParseFloat(example.label)
    ELSE IF example.label = None THEN 0
         ELSE IndexOf(label_list, example.label) - 1

\* The texts the encoder hands to the tokenizer, in order: none for a
\* padding example (step 1 returns before step 2).
tokenized_texts(example) ==
    IF IsPadding(example) THEN <<>>
    ELSE IF example.text_b = None THEN <<example.text_a>>
    ELSE <<example.text_a, example.text_b>>

\* A variant of convert_single_example: a padding example is flagged real.
convert_single_example_PaddingReal(ex_index, example, label_list, max_seq_length, uncased) ==
    IF IsPadding(example)
    THEN InputFeatures(Zeros(max_seq_length), Zeros(max_seq_length),
                       Zeros(max_seq_length), 0, TRUE)
    ELSE LET label_id == label_id_of(example, label_list)
         IN  IF ~label_known(example, label_list)
             THEN LabelNotFoundError
             ELSE encode_tokens(tokenize_fn(example.text_a, uncased),
                                IF example.text_b = None THEN <<>>
                                ELSE tokenize_fn(example.text_b, uncased),
                                example.text_b # None, label_id, max_seq_length)

convert_single_example(ex_index, example, label_list, max_seq_length, uncased) ==
    IF IsPadding(example)
    THEN InputFeatures(Zeros(max_seq_length), Zeros(max_seq_length),
                       Zeros(max_seq_length), 0, FALSE)
    ELSE LET label_id == label_id_of(example, label_list)
         IN  IF ~label_known(example, label_list)
             THEN LabelNotFoundError
             ELSE encode_tokens(tokenize_fn(example.text_a, uncased),
                                IF example.text_b = None THEN <<>>
                                ELSE tokenize_fn(example.text_b, uncased),
                                example.text_b # None, label_id, max_seq_length)

\* The inews encoder returns a list of features for one example; the
\* encoder described gives one Feature per example, so the list holds the
\* feature of convert_single_example.
convert_example_list_for_inews(ex_index, example, label_list, max_seq_length, uncased) ==
    <<convert_single_example(ex_index, example, label_list, max_seq_length, uncased)>>

(***************************************************************************)
(* Records.  A tf.train.Example maps each field name to an Int64List or a  *)
(* FloatList; a container is the sequence of the records written to it.    *)
(***************************************************************************)
create_int_feature(values) == [kind |-> "int64_list", value |-> values]

\* values are Python floats; the FloatList stores each one as a float32.
create_float_feature(values) ==
    [kind |-> "float_list", value |-> [i \in DOMAIN values |-> ToFloat32(values[i])]]

IntsAsFloats(values) == [i \in DOMAIN values |-> FloatOfInt(values[i])]

\* The record file_based_convert_examples_to_features builds of one feature.
tf_example(feature, label_list) ==
    [input_ids |-> create_int_feature(feature.input_ids),
     input_mask |-> create_float_feature(IntsAsFloats(feature.input_mask)),
     segment_ids |-> create_int_feature(feature.segment_ids),
     label_ids |-> IF label_list # NoLabelList
                   THEN create_int_feature(<<feature.label_id>>)
                   ELSE create_float_feature(<<feature.label_id>>),
     is_real_example |-> create_int_feature(<<BoolToInt(feature.is_real_example)>>)]

TypeError == [error |-> "TypeError"]

\* The record the inews writer builds of one feature: every field an int
\* list.  Without a label_list the label ids are Python floats (float(label),
\* 0.0 for a padding example), and Int64List(value = [a float]) at line 281
\* raises TypeError.
tf_example_for_inews(feature, label_list) ==
    IF label_list = NoLabelList THEN TypeError
    ELSE [input_ids |-> create_int_feature(feature.input_ids),
          input_mask |-> create_int_feature(feature.input_mask),
          segment_ids |-> create_int_feature(feature.segment_ids),
          label_ids |-> create_int_feature(<<feature.label_id>>),
          is_real_example |-> create_int_feature(<<BoolToInt(feature.is_real_example)>>)]

\* The files of the output directory: a function from paths to containers.
NoFiles == [p \in {} |-> <<>>]

Exists(files, path) == path \in DOMAIN files

WriteFile(files, path, content) ==
    [p \in DOMAIN files \cup {path} |-> IF p = path THEN content ELSE files[p]]

\* The features of examples[1..], up to and without the first that fails.
FirstError(features) ==
    IF \E i \in DOMAIN features : IsError(features[i])
    THEN CHOOSE i \in DOMAIN features :
            IsError(features[i]) /\ \A j \in 1..(i - 1) : ~IsError(features[j])
    ELSE 0

BeforeError(features) ==
    IF FirstError(features) = 0 THEN features
    ELSE SubSeq(features, 1, FirstError(features) - 1)

ErrorOf(features) ==
    IF FirstError(features) = 0 THEN "none" ELSE features[FirstError(features)].error

\* A variant of KeepsContainer: the existence check is left out.
KeepsContainer_Never(files, output_file, overwrite_data) == FALSE

\* Whether the writer leaves an existing container alone.
KeepsContainer(files, output_file, overwrite_data) ==
    Exists(files, output_file) /\ ~overwrite_data

\* file_based_convert_examples_to_features: the files, the caller's list
\* (examples *= num_passes changes it in place) and the error after the call.
file_based_convert_examples_to_features(files, overwrite_data, examples, label_list, max_seq_length, uncased, output_file, num_passes) ==
    IF KeepsContainer(files, output_file, overwrite_data)
    THEN [files |-> files, examples |-> examples, error |-> "none", wrote |-> FALSE]
    ELSE LET all == IF num_passes > 1 THEN Repeat(examples, num_passes) ELSE examples
             features == [i \in DOMAIN all |->
                             convert_single_example(i - 1, all[i], label_list,
                                                    max_seq_length, uncased)]
             good == BeforeError(features)
         IN  [files |-> WriteFile(files, output_file,
                                  [i \in DOMAIN good |-> tf_example(good[i], label_list)]),
              examples |-> all, error |-> ErrorOf(features), wrote |-> TRUE]

\* file_based_convert_examples_to_features_for_inews: opens the writer at
\* once, whatever is at output_file, and writes one record per feature of
\* each example's list, up to the first feature or record that raises.
file_based_convert_examples_to_features_for_inews(files, examples, label_list, max_seq_length, uncased, output_file, num_passes) ==
    LET all == IF num_passes > 1 THEN Repeat(examples, num_passes) ELSE examples
        features == Concat([i \in DOMAIN all |->
                               convert_example_list_for_inews(i - 1, all[i], label_list,
                                                              max_seq_length, uncased)])
        records == [i \in DOMAIN features |->
                       IF IsError(features[i]) THEN features[i]
                       ELSE tf_example_for_inews(features[i], label_list)]
    IN  [files |-> WriteFile(files, output_file, BeforeError(records)),
         examples |-> all, error |-> ErrorOf(records), wrote |-> TRUE]

(***************************************************************************)
(* The reader: file_based_input_fn_builder's schema and _decode_record.    *)
(***************************************************************************)
FieldNames == {"input_ids", "input_mask", "segment_ids", "label_ids", "is_real_example"}

\* tf.FixedLenFeature(shape, dtype); scalar is the shape [].
FixedLenFeature(scalar, length, dtype) ==
    [scalar |-> scalar, length |-> length, dtype |-> dtype]

name_to_features(seq_length, is_regression) ==
    [input_ids |-> FixedLenFeature(FALSE, seq_length, "int64"),
     input_mask |-> FixedLenFeature(FALSE, seq_length, "float32"),
     segment_ids |-> FixedLenFeature(FALSE, seq_length, "int64"),
     label_ids |-> FixedLenFeature(TRUE, 1, IF is_regression THEN "float32" ELSE "int64"),
     is_real_example |-> FixedLenFeature(TRUE, 1, "int64")]

\* The list kind that holds values of a dtype.
KindOfDtype(dtype) == IF dtype = "float32" THEN "float_list" ELSE "int64_list"

FieldParses(list, feature) ==
    list.kind = KindOfDtype(feature.dtype) /\ Len(list.value) = feature.length

InvalidArgumentError == [error |-> "InvalidArgumentError"]

\* tf.parse_single_example: every declared field must be present with the
\* declared kind and length.
parse_single_example(record, schema) ==
    IF \A name \in FieldNames : FieldParses(record[name], schema[name])
    THEN [name \in FieldNames |->
             IF schema[name].scalar THEN record[name].value[1] ELSE record[name].value]
    ELSE InvalidArgumentError

\* _decode_record: parse, then cast the int64 fields to int32 (the ids,
\* label ids and flags of a container are far below 2^31).
decode_record(record, schema) == parse_single_example(record, schema)

(***************************************************************************)
(* Dataset adapters.  A data directory is described by the number of data  *)
(* rows of its train, dev and test files and by the labels its rows carry; *)
(* FileRows gives the split rows of a file, the header row first.          *)
(***************************************************************************)
DataDir(train, dev, test, labels) ==
    [train |-> train, dev |-> dev, test |-> test, labels |-> labels]

FileTexts(file) ==
    CASE file = "train" -> <<"A", "b b", "c c c">>
      [] file = "dev" -> <<"a", "B b", "c c c">>
      [] OTHER -> <<"c c c", "a", "d d d d">>

FileLabels(labels) ==
    IF labels = "frac" THEN <<"0.1", "1">> ELSE <<"0", "1">>

RowTextA(file, i) == FileTexts(file)[(i % 3) + 1]

RowTextB(file, i) == FileTexts(file)[((i + 1) % 3) + 1]

RowLabel(labels, i) == FileLabels(labels)[(i % 2) + 1]

\* _read_tsv of <file>.txt for the sentence-pair tasks: text_a, text_b, label.
read_tsv(data_dir, file) ==
    <<(<<"text_a", "text_b", "label">>)>> \o
    [i \in 1..data_dir[file] |->
        <<RowTextA(file, i), RowTextB(file, i), RowLabel(data_dir.labels, i)>>]

\* _read_txt of <file>.txt for inews: label, id, title, content.
read_txt(data_dir, file) ==
    <<(<<"label", "id", "title", "content">>)>> \o
    [i \in 1..data_dir[file] |->
        <<RowLabel(data_dir.labels, i), "id", RowTextA(file, i), RowTextB(file, i)>>]

\* The guid "%s-%s" % (set_type, i).
Guid(set_type, i) == <<set_type, i>>

\* Whether line[c] of Python exists: c counts from 0, a negative c from the end.
HasIndex(line, c) == IF c >= 0 THEN c < Len(line) ELSE -c <= Len(line)

\* line[c] of Python.
Index(line, c) == IF c >= 0 THEN line[c + 1] ELSE line[Len(line) + c + 1]

Skipped == [kind |-> "skipped"]

Raised(error) == [kind |-> "raised", error |-> error]

Created(example) == [kind |-> "created", example |-> example]

\* The loop of a _create_examples over its rows: the examples it returns, or
\* the error of the first row that raises.
RowLoop(outcomes) ==
    LET F[k \in 0..Len(outcomes)] ==
            IF k = 0 THEN [error |-> "none", examples |-> <<>>]
            ELSE IF F[k - 1].error # "none" THEN F[k - 1]
            ELSE IF outcomes[k].kind = "raised"
                 THEN [error |-> outcomes[k].error, examples |-> <<>>]
            ELSE IF outcomes[k].kind = "skipped" THEN F[k - 1]
            ELSE [F[k - 1] EXCEPT !.examples = Append(@, outcomes[k].example)]
    IN  F[Len(outcomes)]

\* LCQMCProcessor._create_examples, line i: an IndexError of a short row is
\* caught by the except clause, which drops the row.
LCQMCRow(i, line, set_type) ==
    IF i = 0 THEN Skipped
    ELSE IF ~HasIndex(line, 2) \/ ~HasIndex(line, 0) \/ ~HasIndex(line, 1) THEN Skipped
    ELSE Created(InputExample(Guid(set_type, i), Index(line, 0), Index(line, 1),
                              Index(line, 2)))

\* InewsProcessor._create_examples, line i: line[2], line[3] and line[0] are
\* read without a length test.
InewsRow(i, line, set_type) ==
    IF i = 0 THEN Skipped
    ELSE IF ~HasIndex(line, 2) \/ ~HasIndex(line, 3) THEN Raised("IndexError")
    ELSE IF set_type # "test" /\ ~HasIndex(line, 0) THEN Raised("IndexError")
    ELSE Created(InputExample(Guid(set_type, i), Index(line, 2), Index(line, 3),
                              IF set_type = "test" THEN "0" ELSE Index(line, 0)))

\* THUCNewsProcessor._create_examples, line i: rows of fewer than 3 cells are
\* dropped, then line[3] is read.
THUCNewsRow(i, line, set_type) ==
    IF i = 0 \/ Len(line) < 3 THEN Skipped
    ELSE IF ~HasIndex(line, 3) \/ ~HasIndex(line, 0) THEN Raised("IndexError")
    ELSE Created(InputExample(Guid(set_type, i), Index(line, 3), None, Index(line, 0)))

LCQMCProcessor_create_examples(lines, set_type) ==
    RowLoop([k \in DOMAIN lines |-> LCQMCRow(k - 1, lines[k], set_type)])

\* BQProcessor._create_examples is LCQMCProcessor's, line for line.
BQProcessor_create_examples(lines, set_type) ==
    RowLoop([k \in DOMAIN lines |-> LCQMCRow(k - 1, lines[k], set_type)])

InewsProcessor_create_examples(lines, set_type) ==
    RowLoop([k \in DOMAIN lines |-> InewsRow(k - 1, lines[k], set_type)])

THUCNewsProcessor_create_examples(lines, set_type) ==
    RowLoop([k \in DOMAIN lines |-> THUCNewsRow(k - 1, lines[k], set_type)])

\* CSCProcessor: the loop of get_train_examples and of get_devtest_examples
\* on line i; line[1] and line[0] are read without a length test.
CSCRow(i, line, set_type) ==
    IF i = 0 THEN Skipped
    ELSE IF ~HasIndex(line, 1) \/ ~HasIndex(line, 0) THEN Raised("IndexError")
    ELSE Created(InputExample(Guid(set_type, i), Index(line, 1), None, Index(line, 0)))

CSCProcessor_get_examples(lines, set_type) ==
    RowLoop([k \in DOMAIN lines |-> CSCRow(k - 1, lines[k], set_type)])

\* The task names of main's processors table.
processors ==
    {"mnli_matched", "mnli_mismatched", "sts-b", "imdb", "yelp5", "xnli", "csc",
     "tnews", "inews", "lcqmc_pair", "lcqmc", "bq", "thucnews", "iflydata"}

\* str.lower() of a task name given to a run; a string is one value here, so
\* the names with capitals that the runs use are listed.
lower(s) ==
    CASE s = "LCQMC" -> "lcqmc"
      [] s = "Inews" -> "inews"
      [] s = "CSC" -> "csc"
      [] s = "NoSuchTask" -> "nosuchtask"
      [] OTHER -> s

\* The local task_name of main, line 1199.
TaskName(flags) == lower(flags.task_name)

\* The tasks whose adapter defines get_devtest_examples.
HasDevtest == {"inews", "lcqmc_pair", "lcqmc", "bq", "csc"}

\* The tasks whose adapter defines get_test_examples; for the others
\* DataProcessor.get_test_examples raises NotImplementedError.
HasTestExamples ==
    {"mnli_matched", "mnli_mismatched", "sts-b", "xnli", "tnews", "inews",
     "lcqmc_pair", "lcqmc", "bq", "thucnews", "iflydata"}

\* The adapter class main's processors table gives a task name.
ProcessorOf(task_name) ==
    CASE task_name = "mnli_matched" -> "MnliMatchedProcessor"
      [] task_name = "mnli_mismatched" -> "MnliMismatchedProcessor"
      [] task_name = "sts-b" -> "StsbProcessor"
      [] task_name = "imdb" -> "ImdbProcessor"
      [] task_name = "yelp5" -> "Yelp5Processor"
      [] task_name = "xnli" -> "XnliProcessor"
      [] task_name = "csc" -> "CSCProcessor"
      [] task_name = "tnews" -> "TnewsProcessor"
      [] task_name = "inews" -> "InewsProcessor"
      [] task_name \in {"lcqmc_pair", "lcqmc"} -> "LCQMCProcessor"
      [] task_name = "bq" -> "BQProcessor"
      [] task_name = "thucnews" -> "THUCNewsProcessor"
      [] task_name = "iflydata" -> "iFLYTEKDataProcessor"

\* str(n) of an int n >= 0.
Digit(d) ==
    CASE d = 0 -> "0" [] d = 1 -> "1" [] d = 2 -> "2" [] d = 3 -> "3" [] d = 4 -> "4"
      [] d = 5 -> "5" [] d = 6 -> "6" [] d = 7 -> "7" [] d = 8 -> "8" [] d = 9 -> "9"

RECURSIVE str(_)
str(n) == IF n < 10 THEN Digit(n) ELSE str(n \div 10) \o Digit(n % 10)

\* The list a loop "for i in range(n): labels.append(str(i))" builds.
StrRange(n) == [k \in 1..n |-> str(k - 1)]

\* A variant of TnewsProcessor_get_labels: only i == 5 is left out.
TnewsProcessor_get_labels_Skip5 ==
    LET F[k \in 0..17] ==
            IF k = 0 THEN <<>>
            ELSE IF k - 1 = 5 THEN F[k - 1]
            ELSE Append(F[k - 1], str(100 + (k - 1)))
    IN  F[17]

\* TnewsProcessor.get_labels, the same loop in both source files: i runs over
\* range(17), 5 and 11 are left out, str(100 + i) is appended.
TnewsProcessor_get_labels ==
    LET F[k \in 0..17] ==
            IF k = 0 THEN <<>>
            ELSE IF k - 1 = 5 \/ k - 1 = 11 THEN F[k - 1]
            ELSE Append(F[k - 1], str(100 + (k - 1)))
    IN  F[17]

\* get_labels of each adapter class of the two source files.
ClassLabels(cls) ==
    CASE cls \in {"TnewsProcessor", "classifier_utils.TnewsProcessor"} ->
             TnewsProcessor_get_labels
      [] cls \in {"iFLYTEKDataProcessor", "classifier_utils.iFLYTEKDataProcessor"} ->
             StrRange(119)
      [] cls = "THUCNewsProcessor" -> StrRange(14)
      [] cls = "InewsProcessor" -> <<"0", "1", "2">>
      [] cls \in {"XnliProcessor", "classifier_utils.XnliProcessor",
                  "MnliMatchedProcessor", "MnliMismatchedProcessor"} ->
             <<"contradiction", "entailment", "neutral">>
      [] cls = "Yelp5Processor" -> <<"1", "2", "3", "4", "5">>
      [] cls = "ImdbProcessor" -> <<"neg", "pos">>
      [] cls = "StsbProcessor" -> <<FloatOfInt(0)>>
      [] cls \in {"LCQMCProcessor", "BQProcessor", "CSCProcessor", "GLUEProcessor",
                  "classifier_utils.AFQMCProcessor"} -> <<"0", "1">>

AdapterClasses ==
    {"TnewsProcessor", "classifier_utils.TnewsProcessor", "iFLYTEKDataProcessor",
     "classifier_utils.iFLYTEKDataProcessor", "THUCNewsProcessor", "InewsProcessor",
     "XnliProcessor", "classifier_utils.XnliProcessor", "MnliMatchedProcessor",
     "MnliMismatchedProcessor", "Yelp5Processor", "ImdbProcessor", "StsbProcessor",
     "LCQMCProcessor", "BQProcessor", "CSCProcessor", "GLUEProcessor",
     "classifier_utils.AFQMCProcessor"}

get_labels(task_name) == ClassLabels(ProcessorOf(task_name))

\* The loads of the adapters whose files data_dir holds: inews, the
\* sentence-pair tasks and csc, whose .tsv files hold the rows of read_tsv.
\* These files have complete rows, so the loads return their examples.
get_train_examples(task_name, data_dir) ==
    CASE task_name = "inews" ->
             InewsProcessor_create_examples(read_txt(data_dir, "train"), "train").examples
      [] task_name \in {"lcqmc_pair", "lcqmc", "bq"} ->
             LCQMCProcessor_create_examples(read_tsv(data_dir, "train"), "train").examples
      [] task_name = "csc" ->
             CSCProcessor_get_examples(read_tsv(data_dir, "train"), "train").examples

\* Inews, LCQMC and BQ read dev.txt whatever set_type is; CSC reads
\* <set_type>.tsv.
get_devtest_examples(task_name, data_dir, set_type) ==
    CASE task_name = "inews" ->
             InewsProcessor_create_examples(read_txt(data_dir, "dev"), set_type).examples
      [] task_name \in {"lcqmc_pair", "lcqmc", "bq"} ->
             LCQMCProcessor_create_examples(read_tsv(data_dir, "dev"), set_type).examples
      [] task_name = "csc" ->
             CSCProcessor_get_examples(read_tsv(data_dir, set_type), set_type).examples

\* CSCProcessor has no get_test_examples (HasTestExamples).
get_test_examples(task_name, data_dir) ==
    CASE task_name = "inews" ->
             InewsProcessor_create_examples(read_txt(data_dir, "test"), "test").examples
      [] task_name \in {"lcqmc_pair", "lcqmc", "bq"} ->
             LCQMCProcessor_create_examples(read_tsv(data_dir, "test"), "test").examples

(***************************************************************************)
(* The TSV adapters with column numbers: GLUEProcessor and StsbProcessor.  *)
(* A column that is None is the empty sequence, a column c is <<c>>.       *)
(***************************************************************************)
NoColumn == <<>>

\* The object after __init__ of a subclass and the defaults get_test_examples
\* fills in for the test columns.
GLUEProcessor(label_column, text_a_column, text_b_column) ==
    [label_column |-> label_column, text_a_column |-> text_a_column,
     text_b_column |-> text_b_column, contains_header |-> TRUE,
     test_text_a_column |-> text_a_column, test_text_b_column |-> text_b_column,
     test_contains_header |-> TRUE]

\* A variant of GLUERow: contains_header decides for the test split too.
GLUERow_OneHeaderFlag(self, i, line, set_type, as_float) ==
    LET a_column == IF set_type # "test" THEN self.text_a_column
                    ELSE self.test_text_a_column
        b_column == IF set_type # "test" THEN self.text_b_column
                    ELSE self.test_text_b_column
        text_b == IF b_column # NoColumn THEN Index(line, b_column[1]) ELSE None
    IN  IF i = 0 /\ self.contains_header THEN Skipped
        ELSE IF Len(line) <= a_column THEN Skipped
        ELSE IF b_column # NoColumn /\ Len(line) <= b_column[1] THEN Skipped
        ELSE IF set_type = "test"
        THEN Created(InputExample(Guid(set_type, i), Index(line, a_column), text_b,
                                  IF as_float THEN FloatOfInt(0) ELSE "0"))
        ELSE IF Len(line) <= self.label_column THEN Skipped
        ELSE IF as_float /\ ~IsFloatString(Index(line, self.label_column))
        THEN Raised("ValueError")
        ELSE Created(InputExample(Guid(set_type, i), Index(line, a_column), text_b,
                                  IF as_float
                                  THEN ParseFloat(Index(line, self.label_column))
                                  ELSE Index(line, self.label_column)))

\* One turn of the loop of _create_examples on line i; as_float is the
\* float(...) of the label that StsbProcessor's override adds.
GLUERow(self, i, line, set_type, as_float) ==
    LET a_column == IF set_type # "test" THEN self.text_a_column
                    ELSE self.test_text_a_column
        b_column == IF set_type # "test" THEN self.text_b_column
                    ELSE self.test_text_b_column
        text_b == IF b_column # NoColumn THEN Index(line, b_column[1]) ELSE None
    IN  IF i = 0 /\ self.contains_header /\ set_type # "test" THEN Skipped
        ELSE IF i = 0 /\ self.test_contains_header /\ set_type = "test" THEN Skipped
        ELSE IF Len(line) <= a_column THEN Skipped
        ELSE IF b_column # NoColumn /\ Len(line) <= b_column[1] THEN Skipped
        ELSE IF set_type = "test"
        THEN Created(InputExample(Guid(set_type, i), Index(line, a_column), text_b,
                                  IF as_float THEN FloatOfInt(0) ELSE "0"))
        ELSE IF Len(line) <= self.label_column THEN Skipped
        ELSE IF as_float /\ ~IsFloatString(Index(line, self.label_column))
        THEN Raised("ValueError")
        ELSE Created(InputExample(Guid(set_type, i), Index(line, a_column), text_b,
                                  IF as_float
                                  THEN ParseFloat(Index(line, self.label_column))
                                  ELSE Index(line, self.label_column)))

GLUEProcessor_create_examples(self, lines, set_type) ==
    RowLoop([k \in DOMAIN lines |-> GLUERow(self, k - 1, lines[k], set_type, FALSE)])

StsbProcessor_create_examples(self, lines, set_type) ==
    RowLoop([k \in DOMAIN lines |-> GLUERow(self, k - 1, lines[k], set_type, TRUE)])

(***************************************************************************)
(* The JSON-lines adapters of run_classifier.py and of classifier_utils.py *)
(* (the latter carry the prefix classifier_utils_).  A parsed line is a    *)
(* function from its keys to strings.                                      *)
(***************************************************************************)
\* One turn of the loop of a JSON-lines adapter: line[key] raises KeyError
\* for a missing key; the label is read on the other splits only, the test
\* split gets test_label.
JsonRow(i, line, set_type, text_a_key, text_b_key, test_label) ==
    IF text_a_key \notin DOMAIN line THEN Raised("KeyError")
    ELSE IF text_b_key # None /\ text_b_key \notin DOMAIN line THEN Raised("KeyError")
    ELSE IF set_type # "test" /\ "label" \notin DOMAIN line THEN Raised("KeyError")
    ELSE Created(InputExample(Guid(set_type, i), line[text_a_key],
                              IF text_b_key # None THEN line[text_b_key] ELSE None,
                              IF set_type # "test" THEN line["label"] ELSE test_label))

JsonLoop(lines, set_type, text_a_key, text_b_key, test_label) ==
    RowLoop([k \in DOMAIN lines |->
                JsonRow(k - 1, lines[k], set_type, text_a_key, text_b_key, test_label)])

TnewsProcessor_create_examples(lines, set_type) ==
    JsonLoop(lines, set_type, "sentence", None, None)

iFLYTEKDataProcessor_create_examples(lines, set_type) ==
    JsonLoop(lines, set_type, "sentence", None, None)

\* get_train_examples, get_dev_examples and get_test_examples of
\* run_classifier.XnliProcessor; the last one passes no label.
XnliProcessor_get_examples(lines, set_type) ==
    JsonLoop(lines, set_type, "premise", "hypo", None)

classifier_utils_XnliProcessor_create_examples(lines, set_type) ==
    JsonLoop(lines, set_type, "premise", "hypo", "contradiction")

classifier_utils_TnewsProcessor_create_examples(lines, set_type) ==
    JsonLoop(lines, set_type, "sentence", None, None)

classifier_utils_iFLYTEKDataProcessor_create_examples(lines, set_type) ==
    JsonLoop(lines, set_type, "sentence", None, None)

classifier_utils_AFQMCProcessor_create_examples(lines, set_type) ==
    JsonLoop(lines, set_type, "sentence1", "sentence2", "0")

(***************************************************************************)
(* Container paths.  A file name is the sequence of its directories and    *)
(* its base name; a formatted base name is the sequence of the values the  *)
(* format string joins with dots.                                          *)
(***************************************************************************)
basename(path) == path[Len(path)]

join(dir, base) == <<dir>> \o base

train_file_of(flags) ==
    join(flags.output_dir,
         <<basename(flags.spiece_model_file), "len", flags.max_seq_length,
           "train", "tf_record">>)

eval_file_of(flags) ==
    join(flags.output_dir,
         <<basename(flags.spiece_model_file), "len", flags.max_seq_length,
           flags.eval_split, "eval", "tf_record">>)

predict_file_of(flags) ==
    join(flags.output_dir,
         <<basename(flags.spiece_model_file), "len", flags.max_seq_length,
           flags.eval_split, "predict", "tf_record">>)

\* What the container identity is meant to depend on: the tokenizer
\* configuration, max_seq_length and the split.
ContainerKey(flags, split) ==
    [spiece_model_file |-> flags.spiece_model_file, uncased |-> flags.uncased,
     max_seq_length |-> flags.max_seq_length, split |-> split]

EvalSplitName(flags) == IF flags.eval_split = "dev" THEN "eval-dev" ELSE "eval-test"

(***************************************************************************)
(* The state: the flags of the current run of main(), its position, the    *)
(* directories and containers on disk (they outlive a run), the I/O the    *)
(* run has done, the error it raised, its example lists, and the reader.   *)
(* call and ret hold the last direct call of one of the program's          *)
(* functions and what it returned or raised.                               *)
(***************************************************************************)
VARIABLES FLAGS, pc, dirs, files, io, err, train_examples, eval_examples,
          train_steps, eval_steps, rd, runs, used, evaluation, call, ret

mainVars == <<FLAGS, pc, dirs, files, io, err, train_examples, eval_examples,
              train_steps, eval_steps, rd, runs, used, evaluation>>

vars == <<FLAGS, pc, dirs, files, io, err, train_examples, eval_examples,
          train_steps, eval_steps, rd, runs, used, evaluation, call, ret>>

NoCall == [fn |-> "none"]

\* The checkpoints an evaluation has chosen, steps_and_files of lines
\* 1301-1316, and the results of those it has evaluated, eval_results of
\* lines 1318-1342; both are empty outside an evaluation.
NoEvaluation == [steps_and_files |-> <<>>, eval_results |-> <<>>]

BaseFlags ==
    [task_name |-> "lcqmc", do_train |-> FALSE, do_eval |-> FALSE,
     do_predict |-> FALSE, overwrite_data |-> FALSE, is_regression |-> FALSE,
     max_seq_length |-> 5, spiece_model_file |-> <<"xlnet", "spiece.model">>,
     uncased |-> FALSE, eval_split |-> "dev", eval_batch_size |-> 1,
     predict_batch_size |-> 1, train_batch_size |-> 1, num_train_epochs |-> 1,
     num_passes |-> 1, shuffle_buffer |-> 1, data_dir |-> DataDir(0, 0, 0, "std"),
     output_dir |-> "out", predict_dir |-> "pred", eval_all_ckpt |-> FALSE]

IdleReader ==
    [file |-> <<>>, is_training |-> FALSE, drop_remainder |-> FALSE,
     batch_size |-> 1, pos |-> 0, buf |-> {}, out |-> <<>>, batches |-> 0,
     ended |-> FALSE]

\* The batch size input_fn picks (use_tpu is off).
BatchSizeOf(flags, is_training) ==
    IF is_training THEN flags.train_batch_size
    ELSE IF flags.do_eval THEN flags.eval_batch_size
    ELSE flags.predict_batch_size

\* file_based_input_fn_builder: the reader of input_file before its first read.
file_based_input_fn_builder(flags, input_file, is_training, drop_remainder) ==
    [IdleReader EXCEPT !.file = input_file, !.is_training = is_training,
                       !.drop_remainder = drop_remainder,
                       !.batch_size = BatchSizeOf(flags, is_training)]

label_list_of(flags) ==
    IF flags.is_regression THEN NoLabelList ELSE get_labels(TaskName(flags))

\* The conversion main() runs for its task: the inews writer or the general one.
Convert(flags, fs, examples, output_file, num_passes) ==
    IF TaskName(flags) = "inews"
    THEN file_based_convert_examples_to_features_for_inews(
             fs, examples, label_list_of(flags), flags.max_seq_length,
             flags.uncased, output_file, num_passes)
    ELSE file_based_convert_examples_to_features(
             fs, flags.overwrite_data, examples, label_list_of(flags),
             flags.max_seq_length, flags.uncased, output_file, num_passes)

\* The I/O event of a conversion, when it opened a writer.
WriteEvent(r, event) == IF r.wrote THEN {event} ELSE {}

Init ==
    /\ FLAGS = BaseFlags
    /\ pc = "idle"
    /\ dirs = {}
    /\ files = NoFiles
    /\ io = {}
    /\ err = "none"
    /\ train_examples = <<>>
    /\ eval_examples = <<>>
    /\ train_steps = 0
    /\ eval_steps = 0
    /\ rd = IdleReader
    /\ runs = 0
    /\ used = {}
    /\ evaluation = NoEvaluation
    /\ call = NoCall
    /\ ret = None

SameModes(c, d) ==
    c.do_train = d.do_train /\ c.do_eval = d.do_eval /\ c.do_predict = d.do_predict

\* A run of main() starts with flags drawn from configs; limit bounds the
\* number of runs when it is not 0, and with same_modes the runs of one
\* behaviour all enable the same modes.
StartRun(configs, limit, same_modes) ==
    /\ pc \in {"idle", "done", "failed"}
    /\ limit = 0 \/ runs < limit
    /\ \E c \in configs :
          /\ (same_modes /\ pc # "idle") => SameModes(c, FLAGS)
          /\ FLAGS' = c
    /\ runs' = IF limit = 0 THEN 0 ELSE runs + 1
    /\ pc' = "predict_dir"
    /\ io' = {}
    /\ err' = "none"
    /\ train_examples' = <<>>
    /\ eval_examples' = <<>>
    /\ train_steps' = 0
    /\ eval_steps' = 0
    /\ rd' = IdleReader
    /\ evaluation' = NoEvaluation
    /\ UNCHANGED <<dirs, files, used, call, ret>>

Raise(error) ==
    /\ err' = error
    /\ pc' = "failed"

\* Lines 1169-1172: the prediction directory is made first of all.
MakePredictDir ==
    /\ pc = "predict_dir"
    /\ IF FLAGS.do_predict /\ FLAGS.predict_dir \notin dirs
       THEN /\ dirs' = dirs \cup {FLAGS.predict_dir}
            /\ io' = io \cup {"MakeDirs predict_dir"}
       ELSE UNCHANGED <<dirs, io>>
    /\ pc' = "check_modes"
    /\ UNCHANGED <<FLAGS, files, err, train_examples, eval_examples, train_steps,
                   eval_steps, rd, runs, used, evaluation, call, ret>>

\* Lines 1191-1194.
CheckModes ==
    /\ pc = "check_modes"
    /\ IF ~FLAGS.do_train /\ ~FLAGS.do_eval /\ ~FLAGS.do_predict
       THEN Raise("ValueError: At least one of do_train, do_eval, do_predict")
       ELSE pc' = "output_dir" /\ UNCHANGED err
    /\ UNCHANGED <<FLAGS, dirs, files, io, train_examples, eval_examples,
                   train_steps, eval_steps, rd, runs, used, evaluation, call, ret>>

\* Lines 1196-1197.
MakeOutputDir ==
    /\ pc = "output_dir"
    /\ IF FLAGS.output_dir \notin dirs
       THEN /\ dirs' = dirs \cup {FLAGS.output_dir}
            /\ io' = io \cup {"MakeDirs output_dir"}
       ELSE UNCHANGED <<dirs, io>>
    /\ pc' = "task"
    /\ UNCHANGED <<FLAGS, files, err, train_examples, eval_examples, train_steps,
                   eval_steps, rd, runs, used, evaluation, call, ret>>

\* Lines 1199-1208: the task lookup, then the sentencepiece model is loaded.
LookupTask ==
    /\ pc = "task"
    /\ IF TaskName(FLAGS) \notin processors
       THEN Raise("ValueError: Task not found") /\ UNCHANGED io
       ELSE /\ pc' = "train"
            /\ io' = io \cup {"Load spiece_model_file"}
            /\ UNCHANGED err
    /\ UNCHANGED <<FLAGS, dirs, files, train_examples, eval_examples, train_steps,
                   eval_steps, rd, runs, used, evaluation, call, ret>>

(***************************************************************************)
(* The reader's dataset pipeline.                                          *)
(***************************************************************************)
Schema == name_to_features(FLAGS.max_seq_length, FLAGS.is_regression)

Container(reader) == files[reader.file]

Decodes(reader, indices) ==
    \A i \in indices : ~IsError(decode_record(Container(reader)[i], Schema))

\* The record indices of the next batch of an ordered reader: batch_size
\* records, or the rest when drop_remainder is off, or none at the end.
NextBatch(reader) ==
    LET n == Len(Container(reader))
        left == n - reader.pos
    IN  IF left >= reader.batch_size
        THEN [i \in 1..reader.batch_size |-> reader.pos + i]
        ELSE IF left > 0 /\ ~reader.drop_remainder
             THEN [i \in 1..left |-> reader.pos + i]
             ELSE <<>>

\* The records one get-next of an ordered reader takes from the container
\* while it fills a batch, lines 1025-1029: map_and_batch applies
\* _decode_record to each of them, those of a short last batch that
\* drop_remainder drops included.
RecordsRead(reader) ==
    LET left == Len(Container(reader)) - reader.pos
        n == IF left >= reader.batch_size THEN reader.batch_size ELSE left
    IN  {reader.pos + i : i \in 1..n}

\* One get-next on an ordered (is_training false) reader.
ReadBatch(reader) ==
    LET batch == NextBatch(reader)
    IN  IF batch = <<>>
        THEN [reader EXCEPT !.ended = TRUE]
        ELSE [reader EXCEPT !.pos = reader.pos + Len(batch),
                            !.out = reader.out \o batch,
                            !.batches = reader.batches + 1]

\* Lines 1446-1481 on the records estimator.predict was given so far.  The
\* estimator is outside the program: a score vector is known by the record
\* it was computed from.
predict_results(reader) ==
    [k \in DOMAIN reader.out |-> [logits_of |-> Container(reader)[reader.out[k]]]]

\* The table: fout.write("index\tprediction\n"), then one row per result,
\* "{}\t{}\n".format(pred_cnt, label_out).
fout(reader) ==
    <<"index\tprediction">> \o
    [k \in DOMAIN reader.out |->
        [pred_cnt |-> k - 1, label_out_of |-> predict_results(reader)[k].logits_of]]

(***************************************************************************)
(* Training, lines 1235-1263.                                              *)
(***************************************************************************)
\* np.random.shuffle: any order of the list.
Shuffles(s) == {[i \in DOMAIN s |-> s[p[i]]] : p \in Permutations(DOMAIN s)}

TrainSkip ==
    /\ pc = "train"
    /\ ~FLAGS.do_train
    /\ pc' = "load_eval"
    /\ UNCHANGED <<FLAGS, dirs, files, io, err, train_examples, eval_examples,
                   train_steps, eval_steps, rd, runs, used, evaluation, call, ret>>

TrainConvert ==
    /\ pc = "train"
    /\ FLAGS.do_train
    /\ \E shuffled \in Shuffles(get_train_examples(TaskName(FLAGS), FLAGS.data_dir)) :
          LET r == Convert(FLAGS, files, shuffled, train_file_of(FLAGS), FLAGS.num_passes)
          IN  /\ files' = r.files
              /\ train_examples' = r.examples
              /\ io' = io \cup {"read train"} \cup WriteEvent(r, "write train")
              /\ IF r.error # "none"
                 THEN Raise(r.error) /\ UNCHANGED <<train_steps, rd>>
                 ELSE /\ train_steps' = (Len(r.examples) * FLAGS.num_train_epochs)
                                            \div FLAGS.train_batch_size
                      /\ rd' = file_based_input_fn_builder(FLAGS, train_file_of(FLAGS),
                                                           TRUE, TRUE)
                      /\ pc' = "training"
                      /\ UNCHANGED err
    /\ used' = used \cup {[path |-> train_file_of(FLAGS), key |-> ContainerKey(FLAGS, "train")]}
    /\ UNCHANGED <<FLAGS, dirs, eval_examples, eval_steps, runs, evaluation, call, ret>>

\* The shuffle buffer takes the next record of the current pass.
TrainFill ==
    /\ pc = "training"
    /\ Len(rd.out) < train_steps * rd.batch_size
    /\ Cardinality(rd.buf) < FLAGS.shuffle_buffer
    /\ rd.pos < Len(Container(rd))
    /\ rd' = [rd EXCEPT !.pos = rd.pos + 1, !.buf = rd.buf \cup {rd.pos + 1}]
    /\ UNCHANGED <<FLAGS, pc, dirs, files, io, err, train_examples, eval_examples,
                   train_steps, eval_steps, runs, used, evaluation, call, ret>>

\* A full buffer, or the buffer of an exhausted pass, gives one of its records.
TrainEmit ==
    /\ pc = "training"
    /\ Len(rd.out) < train_steps * rd.batch_size
    /\ rd.buf # {}
    /\ Cardinality(rd.buf) = FLAGS.shuffle_buffer \/ rd.pos = Len(Container(rd))
    /\ \E i \in rd.buf :
          IF Decodes(rd, {i})
          THEN /\ rd' = [rd EXCEPT !.buf = rd.buf \ {i}, !.out = Append(rd.out, i)]
               /\ UNCHANGED <<pc, err>>
          ELSE Raise("InvalidArgumentError") /\ UNCHANGED rd
    /\ UNCHANGED <<FLAGS, dirs, files, io, train_examples, eval_examples,
                   train_steps, eval_steps, runs, used, evaluation, call, ret>>

\* repeat(): after a pass the container is read again; a pass that gave
\* nothing ends the stream.
TrainRepeat ==
    /\ pc = "training"
    /\ Len(rd.out) < train_steps * rd.batch_size
    /\ rd.buf = {}
    /\ rd.pos = Len(Container(rd))
    /\ ~rd.ended
    /\ rd' = IF rd.pos = 0 THEN [rd EXCEPT !.ended = TRUE] ELSE [rd EXCEPT !.pos = 0]
    /\ UNCHANGED <<FLAGS, pc, dirs, files, io, err, train_examples, eval_examples,
                   train_steps, eval_steps, runs, used, evaluation, call, ret>>

\* estimator.train(max_steps = 0) is refused.
TrainRefuse ==
    /\ pc = "training"
    /\ train_steps = 0
    /\ Raise("ValueError: Must specify max_steps > 0")
    /\ UNCHANGED <<FLAGS, dirs, files, io, train_examples, eval_examples,
                   train_steps, eval_steps, rd, runs, used, evaluation, call, ret>>

\* estimator.train returns after max_steps batches, or at the end of input.
TrainDone ==
    /\ pc = "training"
    /\ train_steps > 0
    /\ Len(rd.out) >= train_steps * rd.batch_size \/ rd.ended
    /\ pc' = "load_eval"
    /\ UNCHANGED <<FLAGS, dirs, files, io, err, train_examples, eval_examples,
                   train_steps, eval_steps, rd, runs, used, evaluation, call, ret>>

(***************************************************************************)
(* The checkpoints of model_dir, lines 1301-1316.  A file of model_dir is  *)
(* its name before the step, the step when the name ends in "-<digits>"    *)
(* before the suffix, and the suffix.                                      *)
(***************************************************************************)
File(prefix, step, suffix) == [prefix |-> prefix, step |-> step, suffix |-> suffix]

\* filename.endswith(".index")
IsIndexFile(filename) == filename.suffix = ".index"

\* int(cur_filename.split("-")[-1]) raises ValueError when what follows the
\* last "-" is not a number.
HasStep(filename) == filename.step # <<>>

RECURSIVE StableSort(_, _)
\* sorted(pairs, key = first element), reversed order when descending; both
\* keep the elements of equal key in their order.
StableSort(pairs, descending) ==
    IF pairs = <<>> THEN <<>>
    ELSE LET last == pairs[Len(pairs)]
             front == StableSort(SubSeq(pairs, 1, Len(pairs) - 1), descending)
             Before(p) == IF descending THEN p[1] >= last[1] ELSE p[1] <= last[1]
         IN  SelectSeq(front, Before) \o <<last>>
             \o SelectSeq(front, LAMBDA p : ~Before(p))

\* A variant of KeepCheckpoints: the first checkpoint is kept, not the last.
KeepCheckpoints_First(sorted, eval_all_ckpt) ==
    IF eval_all_ckpt \/ sorted = <<>> THEN sorted ELSE <<sorted[1]>>

\* if not FLAGS.eval_all_ckpt: steps_and_files = steps_and_files[-1:]
KeepCheckpoints(sorted, eval_all_ckpt) ==
    IF eval_all_ckpt \/ sorted = <<>> THEN sorted ELSE <<sorted[Len(sorted)]>>

\* Lines 1301-1317: the [global_step, cur_filename] pairs to evaluate.
steps_and_files(filenames, eval_all_ckpt) ==
    LET indexed == SelectSeq(filenames, IsIndexFile)
        pairs == [k \in DOMAIN indexed |-> <<indexed[k].step[1], indexed[k]>>]
    IN  KeepCheckpoints(StableSort(pairs, FALSE), eval_all_ckpt)

\* key_name, line 1341.
key_name(is_regression) == IF is_regression THEN "eval_pearsonr" ELSE "eval_accuracy"

\* The result of one estimator.evaluate with ret["step"] and ret["path"] set:
\* the keys of the task's metric_fn (lines 1062-1081), "path" and "step".
EvalResult(is_regression, metric, loss, global_step, filename) ==
    [k \in {key_name(is_regression), "eval_loss", "path", "step"} |->
        CASE k = "eval_loss" -> <<loss>>
          [] k = "path" -> <<filename>>
          [] k = "step" -> <<global_step>>
          [] OTHER -> <<metric>>]

\* Line 1342: eval_results.sort(key = x[key_name], reverse = True); results
\* of equal metric keep their order.
SortByMetric(eval_results, is_regression) ==
    LET key == key_name(is_regression)
        pairs == [k \in DOMAIN eval_results |-> <<eval_results[k][key][1], eval_results[k]>>]
        sorted == StableSort(pairs, TRUE)
    IN  [k \in DOMAIN pairs |-> sorted[k][2]]

\* What tf.gfile.ListDirectory(FLAGS.model_dir) gives a run: nothing, two
\* checkpoints listed with the later one first, or an index file whose name
\* has no step.
ModelDirListings ==
    {<<>>,
     <<File("model.ckpt", <<10>>, ".index"), File("model.ckpt", <<10>>, ".meta"),
       File("model.ckpt", <<2>>, ".index")>>,
     <<File("graph", <<>>, ".index")>>}

(***************************************************************************)
(* Evaluation, lines 1265-1348.                                            *)
(***************************************************************************)
LoadEval ==
    /\ pc = "load_eval"
    /\ IF ~FLAGS.do_eval /\ ~FLAGS.do_predict
       THEN pc' = "predict" /\ UNCHANGED <<err, eval_examples, io>>
       ELSE IF TaskName(FLAGS) \notin HasDevtest
            THEN /\ Raise("AttributeError: get_devtest_examples")
                 /\ UNCHANGED <<eval_examples, io>>
            ELSE /\ eval_examples' = get_devtest_examples(TaskName(FLAGS), FLAGS.data_dir,
                                                          FLAGS.eval_split)
                 /\ io' = io \cup {"read dev"}
                 /\ pc' = IF FLAGS.do_eval THEN "align" ELSE "predict"
                 /\ UNCHANGED err
    /\ UNCHANGED <<FLAGS, dirs, files, train_examples, train_steps, eval_steps, rd,
                   runs, used, evaluation, call, ret>>

\* A variant of AppendPadding: the padding is put in front.
AppendPadding_InFront(examples) == <<PaddingInputExample>> \o examples

\* A variant of AppendPadding: the list is left as it is.
AppendPadding_None(examples) == examples

\* eval_examples.append(PaddingInputExample())
AppendPadding(examples) == Append(examples, PaddingInputExample)

\* One turn of the padding loop, lines 1277-1278.
AlignAppend ==
    /\ pc = "align"
    /\ Len(eval_examples) % FLAGS.eval_batch_size # 0
    /\ eval_examples' = AppendPadding(eval_examples)
    /\ UNCHANGED <<FLAGS, pc, dirs, files, io, err, train_examples, train_steps,
                   eval_steps, rd, runs, used, evaluation, call, ret>>

AlignDone ==
    /\ pc = "align"
    /\ Len(eval_examples) % FLAGS.eval_batch_size = 0
    /\ pc' = "eval_convert"
    /\ UNCHANGED <<FLAGS, dirs, files, io, err, train_examples, eval_examples,
                   train_steps, eval_steps, rd, runs, used, evaluation, call, ret>>

\* Lines 1280-1299: the conversion, eval_steps and the reader.
EvalConvert ==
    /\ pc = "eval_convert"
    /\ LET r == Convert(FLAGS, files, eval_examples, eval_file_of(FLAGS), 1)
       IN  /\ files' = r.files
           /\ eval_examples' = r.examples
           /\ io' = io \cup WriteEvent(r, "write eval")
           /\ IF r.error # "none"
              THEN Raise(r.error) /\ UNCHANGED <<eval_steps, rd>>
              ELSE /\ eval_steps' = Len(r.examples) \div FLAGS.eval_batch_size
                   /\ rd' = file_based_input_fn_builder(FLAGS, eval_file_of(FLAGS),
                                                        FALSE, TRUE)
                   /\ pc' = "list_ckpt"
                   /\ UNCHANGED err
    /\ used' = used \cup {[path |-> eval_file_of(FLAGS),
                           key |-> ContainerKey(FLAGS, EvalSplitName(FLAGS))]}
    /\ UNCHANGED <<FLAGS, dirs, train_examples, train_steps, runs, evaluation, call, ret>>

\* Lines 1301-1320: model_dir is listed and the checkpoints are chosen;
\* int() of a name without a step raises ValueError.
ListCheckpoints ==
    /\ pc = "list_ckpt"
    /\ \E filenames \in ModelDirListings :
          IF \E k \in DOMAIN filenames : IsIndexFile(filenames[k]) /\ ~HasStep(filenames[k])
          THEN Raise("ValueError: invalid literal for int()") /\ UNCHANGED evaluation
          ELSE /\ evaluation' = [steps_and_files |->
                                     steps_and_files(filenames, FLAGS.eval_all_ckpt),
                                 eval_results |-> <<>>]
               /\ pc' = "evaluate"
               /\ UNCHANGED err
    /\ UNCHANGED <<FLAGS, dirs, files, io, train_examples, eval_examples,
                   train_steps, eval_steps, rd, runs, used, call, ret>>

\* Whether the loop of line 1323 has a checkpoint left.
CheckpointLeft == Len(evaluation.eval_results) < Len(evaluation.steps_and_files)

\* estimator.evaluate(steps = 0) is refused.
EvalRefuse ==
    /\ pc = "evaluate"
    /\ CheckpointLeft
    /\ eval_steps = 0
    /\ Raise("ValueError: Must specify steps > 0")
    /\ UNCHANGED <<FLAGS, dirs, files, io, train_examples, eval_examples,
                   train_steps, eval_steps, rd, runs, used, evaluation, call, ret>>

\* estimator.evaluate asks the reader for one more batch.
EvalRead ==
    /\ pc = "evaluate"
    /\ CheckpointLeft
    /\ rd.batches < eval_steps
    /\ ~rd.ended
    /\ IF Decodes(rd, RecordsRead(rd))
       THEN rd' = ReadBatch(rd) /\ UNCHANGED <<pc, err>>
       ELSE Raise("InvalidArgumentError") /\ UNCHANGED rd
    /\ UNCHANGED <<FLAGS, dirs, files, io, train_examples, eval_examples,
                   train_steps, eval_steps, runs, used, evaluation, call, ret>>

\* estimator.evaluate returns for one checkpoint, with a metric the
\* estimator computes, and its result is appended (lines 1324-1332); the
\* next call of estimator.evaluate calls
\* eval_input_fn again and reads the container from its start.
EvalDone ==
    /\ pc = "evaluate"
    /\ CheckpointLeft
    /\ eval_steps > 0
    /\ rd.batches = eval_steps \/ rd.ended
    /\ \E metric \in 0..MaxMetric :
          LET next == StableSort(evaluation.steps_and_files, FALSE)
                          [Len(evaluation.eval_results) + 1]
              result == EvalResult(FLAGS.is_regression, metric, 0, next[1], next[2])
          IN  evaluation' = [evaluation EXCEPT !.eval_results = Append(@, result)]
    /\ rd' = IF Len(evaluation.eval_results) + 1 < Len(evaluation.steps_and_files)
             THEN file_based_input_fn_builder(FLAGS, eval_file_of(FLAGS), FALSE, TRUE)
             ELSE rd
    /\ UNCHANGED <<FLAGS, pc, dirs, files, io, err, train_examples, eval_examples,
                   train_steps, eval_steps, runs, used, call, ret>>

\* Lines 1341-1348: after the loop eval_results is sorted in place and
\* eval_results[0] is read; it raises IndexError when no checkpoint was
\* evaluated.
EvalBest ==
    /\ pc = "evaluate"
    /\ ~CheckpointLeft
    /\ evaluation' = [evaluation EXCEPT
                          !.eval_results = SortByMetric(@, FLAGS.is_regression)]
    /\ IF evaluation.eval_results = <<>>
       THEN Raise("IndexError: list index out of range")
       ELSE pc' = "predict" /\ UNCHANGED err
    /\ UNCHANGED <<FLAGS, dirs, files, io, train_examples, eval_examples,
                   train_steps, eval_steps, rd, runs, used, call, ret>>

(***************************************************************************)
(* Prediction, lines 1426-1481.                                            *)
(***************************************************************************)
PredictSkip ==
    /\ pc = "predict"
    /\ ~FLAGS.do_predict
    /\ pc' = "done"
    /\ UNCHANGED <<FLAGS, dirs, files, io, err, train_examples, eval_examples,
                   train_steps, eval_steps, rd, runs, used, evaluation, call, ret>>

\* Line 1427 for an adapter without get_test_examples.
PredictUnsupported ==
    /\ pc = "predict"
    /\ FLAGS.do_predict
    /\ TaskName(FLAGS) \notin HasTestExamples
    /\ Raise("NotImplementedError")
    /\ UNCHANGED <<FLAGS, dirs, files, io, train_examples, eval_examples,
                   train_steps, eval_steps, rd, runs, used, evaluation, call, ret>>

PredictConvert ==
    /\ pc = "predict"
    /\ FLAGS.do_predict
    /\ TaskName(FLAGS) \in HasTestExamples
    /\ LET r == Convert(FLAGS, files, get_test_examples(TaskName(FLAGS), FLAGS.data_dir),
                        predict_file_of(FLAGS), 1)
       IN  /\ files' = r.files
           /\ eval_examples' = r.examples
           /\ io' = io \cup {"read test"} \cup WriteEvent(r, "write predict")
           /\ IF r.error # "none"
              THEN Raise(r.error) /\ UNCHANGED rd
              ELSE /\ rd' = file_based_input_fn_builder(FLAGS, predict_file_of(FLAGS),
                                                        FALSE, FALSE)
                   /\ pc' = "predicting"
                   /\ UNCHANGED err
    /\ used' = used \cup {[path |-> predict_file_of(FLAGS),
                           key |-> ContainerKey(FLAGS, "predict")]}
    /\ UNCHANGED <<FLAGS, dirs, train_examples, train_steps, eval_steps, runs, evaluation, call, ret>>

\* estimator.predict reads to the end of the input.
PredictRead ==
    /\ pc = "predicting"
    /\ ~rd.ended
    /\ IF Decodes(rd, RecordsRead(rd))
       THEN rd' = ReadBatch(rd) /\ UNCHANGED <<pc, err>>
       ELSE Raise("InvalidArgumentError") /\ UNCHANGED rd
    /\ UNCHANGED <<FLAGS, dirs, files, io, train_examples, eval_examples,
                   train_steps, eval_steps, runs, used, evaluation, call, ret>>

PredictDone ==
    /\ pc = "predicting"
    /\ rd.ended
    /\ pc' = "done"
    /\ UNCHANGED <<FLAGS, dirs, files, io, err, train_examples, eval_examples,
                   train_steps, eval_steps, rd, runs, used, evaluation, call, ret>>

\* The steps of a run after its flags are set.
RunSteps ==
    \/ MakePredictDir \/ CheckModes \/ MakeOutputDir \/ LookupTask
    \/ TrainSkip \/ TrainConvert \/ TrainFill \/ TrainEmit \/ TrainRepeat \/ TrainRefuse \/ TrainDone
    \/ LoadEval \/ AlignAppend \/ AlignDone \/ EvalConvert
    \/ ListCheckpoints \/ EvalRefuse \/ EvalRead \/ EvalDone \/ EvalBest
    \/ PredictSkip \/ PredictUnsupported \/ PredictConvert \/ PredictRead \/ PredictDone

(***************************************************************************)
(* The flag settings explored.                                             *)
(***************************************************************************)
\* Evaluation runs of the sentence-pair task and of inews.
EvalConfigs ==
    {[BaseFlags EXCEPT !.do_eval = TRUE, !.task_name = t, !.eval_batch_size = b,
                       !.overwrite_data = ow, !.data_dir = DataDir(0, n, 0, "std")] :
        t \in {"lcqmc", "inews"}, b \in 1..MaxBatch, ow \in BOOLEAN, n \in 0..MaxExamples}

\* Regression runs: label_list is None and the labels are floats.
RegressionConfigs ==
    {[BaseFlags EXCEPT !.do_eval = TRUE, !.is_regression = TRUE, !.eval_batch_size = b,
                       !.overwrite_data = ow, !.eval_all_ckpt = all,
                       !.data_dir = DataDir(0, n, 0, l)] :
        b \in 1..MaxSmall, ow \in BOOLEAN, all \in BOOLEAN, n \in 0..MaxSmall,
        l \in {"std", "frac"}}

\* Evaluation runs that fail: an adapter without get_devtest_examples, an
\* unknown task, labels outside the vocabulary.
FailingEvalConfigs ==
    {[BaseFlags EXCEPT !.do_eval = TRUE, !.task_name = t] : t \in {"tnews", "nosuchtask"}}
    \cup {[BaseFlags EXCEPT !.do_eval = TRUE, !.overwrite_data = ow,
                            !.data_dir = DataDir(0, n, 0, "frac")] :
             ow \in BOOLEAN, n \in 1..MaxSmall}

TrainConfigs ==
    {[BaseFlags EXCEPT !.do_train = TRUE, !.task_name = t, !.num_passes = k,
                       !.overwrite_data = ow, !.train_batch_size = b,
                       !.shuffle_buffer = sb, !.data_dir = DataDir(n, 0, 0, "std")] :
        t \in {"lcqmc", "inews"}, k \in 1..MaxPasses, ow \in BOOLEAN, b \in 1..2,
        sb \in 1..2, n \in 0..MaxTrain}
    \cup {[BaseFlags EXCEPT !.do_train = TRUE, !.task_name = "nosuchtask"]}

PredictConfigs ==
    {[BaseFlags EXCEPT !.do_predict = TRUE, !.do_eval = ev, !.task_name = t,
                       !.predict_batch_size = b, !.eval_batch_size = b,
                       !.overwrite_data = ow, !.data_dir = DataDir(0, n, n, "std")] :
        ev \in BOOLEAN, t \in {"lcqmc", "inews"}, b \in 1..2, ow \in BOOLEAN,
        n \in 0..MaxSmall}
    \cup {[BaseFlags EXCEPT !.do_predict = TRUE, !.task_name = "nosuchtask"]}

\* Task names given with capitals, csc, whose adapter has no
\* get_test_examples and takes its label from the first column, and inews
\* as a regression.
OtherTaskConfigs ==
    {[BaseFlags EXCEPT !.do_eval = TRUE, !.task_name = t, !.data_dir = DataDir(0, n, 0, "std")] :
        t \in {"LCQMC", "csc"}, n \in 0..1}
    \cup {[BaseFlags EXCEPT !.do_train = TRUE, !.task_name = t,
                            !.data_dir = DataDir(1, 0, 0, "std")] : t \in {"Inews", "csc"}}
    \cup {[BaseFlags EXCEPT !.do_predict = TRUE, !.task_name = "csc",
                            !.data_dir = DataDir(0, n, n, "std")] : n \in 0..1}
    \cup {[BaseFlags EXCEPT !.do_eval = TRUE, !.task_name = "inews", !.is_regression = TRUE,
                            !.data_dir = DataDir(0, n, 0, "std")] : n \in 0..1}

RunConfigs ==
    EvalConfigs \cup RegressionConfigs \cup FailingEvalConfigs \cup TrainConfigs
    \cup PredictConfigs \cup OtherTaskConfigs \cup {BaseFlags}

\* Runs that differ in what a container path is made of.
PathConfigs ==
    {[BaseFlags EXCEPT !.do_train = (m = "train"), !.do_eval = (m = "eval"),
                       !.do_predict = (m = "predict"), !.spiece_model_file = f,
                       !.uncased = u, !.max_seq_length = len, !.eval_split = es,
                       !.eval_batch_size = 2, !.num_train_epochs = 2,
                       !.data_dir = DataDir(n, n, n, "std")] :
        m \in {"train", "eval", "predict"},
        f \in {<<"xlnet", "spiece.model">>, <<"xlnet_large", "spiece.model">>,
               <<"xlnet", "spiece_zh.model">>},
        u \in BOOLEAN, len \in {5, 6}, es \in {"dev", "test"}, n \in 0..1}
    \cup {[BaseFlags EXCEPT !.do_eval = TRUE, !.task_name = t] : t \in {"tnews", "nosuchtask"}}
    \cup {[BaseFlags EXCEPT !.do_predict = TRUE, !.task_name = "csc", !.eval_split = es,
                            !.data_dir = DataDir(0, 1, 1, "std")] : es \in {"dev", "test"}}
    \cup {BaseFlags}

(***************************************************************************)
(* Specifications.  Spec: main() run again and again over one output       *)
(* directory, the runs of a behaviour enabling the same modes (containers  *)
(* of different splits have different paths).  SpecPaths: MaxPathRuns runs *)
(* whose flags differ in the parts of a container path.                    *)
(***************************************************************************)
Next == StartRun(RunConfigs, 0, TRUE) \/ RunSteps

Spec == Init /\ [][Next]_vars

NextPaths == StartRun(PathConfigs, MaxPathRuns, FALSE) \/ RunSteps

SpecPaths == Init /\ [][NextPaths]_vars

(***************************************************************************)
(* Direct calls of the program's functions, on inputs drawn from small     *)
(* sets; a behaviour makes one call.                                       *)
(***************************************************************************)
\* The sequences over S of length 0..n.
SeqsUpTo(S, n) == UNION {[1..k -> S] : k \in 0..n}

\* Rows of 1..MaxCols cells.
ShortRows == {[j \in 1..n |-> v] : n \in 1..MaxCols, v \in {"a", "0.5"}}

OptionalColumns == {NoColumn} \cup {<<c>> : c \in 0..(MaxCols - 1)}

CallGLUECreateExamples ==
    /\ call = NoCall
    /\ \E lines \in SeqsUpTo(ShortRows, MaxRows), set_type \in {"train", "test"},
          label_column \in -1..(MaxCols - 1), text_a_column \in 0..(MaxCols - 1),
          text_b_column \in OptionalColumns, cls \in {"GLUEProcessor", "StsbProcessor"} :
          LET self == GLUEProcessor(label_column, text_a_column, text_b_column)
          IN  /\ call' = [fn |-> "_create_examples", cls |-> cls, self |-> self,
                          lines |-> lines, set_type |-> set_type]
              /\ ret' = IF cls = "StsbProcessor"
                        THEN StsbProcessor_create_examples(self, lines, set_type)
                        ELSE GLUEProcessor_create_examples(self, lines, set_type)
    /\ UNCHANGED mainVars

TextCreateExamples(cls, lines, set_type) ==
    CASE cls = "THUCNewsProcessor" -> THUCNewsProcessor_create_examples(lines, set_type)
      [] cls = "InewsProcessor" -> InewsProcessor_create_examples(lines, set_type)
      [] cls = "LCQMCProcessor" -> LCQMCProcessor_create_examples(lines, set_type)
      [] cls = "BQProcessor" -> BQProcessor_create_examples(lines, set_type)

TextProcessors == {"THUCNewsProcessor", "InewsProcessor", "LCQMCProcessor", "BQProcessor"}

CallTextCreateExamples ==
    /\ call = NoCall
    /\ \E lines \in SeqsUpTo(ShortRows, MaxRows), set_type \in {"train", "test"},
          cls \in TextProcessors :
          /\ call' = [fn |-> "_create_examples", cls |-> cls, lines |-> lines,
                      set_type |-> set_type]
          /\ ret' = TextCreateExamples(cls, lines, set_type)
    /\ UNCHANGED mainVars

JsonProcessors ==
    {"TnewsProcessor", "iFLYTEKDataProcessor", "XnliProcessor",
     "classifier_utils.XnliProcessor", "classifier_utils.TnewsProcessor",
     "classifier_utils.iFLYTEKDataProcessor", "classifier_utils.AFQMCProcessor"}

JsonCreateExamples(cls, lines, set_type) ==
    CASE cls = "TnewsProcessor" -> TnewsProcessor_create_examples(lines, set_type)
      [] cls = "iFLYTEKDataProcessor" -> iFLYTEKDataProcessor_create_examples(lines, set_type)
      [] cls = "XnliProcessor" -> XnliProcessor_get_examples(lines, set_type)
      [] cls = "classifier_utils.XnliProcessor" ->
             classifier_utils_XnliProcessor_create_examples(lines, set_type)
      [] cls = "classifier_utils.TnewsProcessor" ->
             classifier_utils_TnewsProcessor_create_examples(lines, set_type)
      [] cls = "classifier_utils.iFLYTEKDataProcessor" ->
             classifier_utils_iFLYTEKDataProcessor_create_examples(lines, set_type)
      [] cls = "classifier_utils.AFQMCProcessor" ->
             classifier_utils_AFQMCProcessor_create_examples(lines, set_type)

\* The lines of a file of an adapter: its text fields, with or without a label.
JsonLinesOf(cls) ==
    IF cls \in {"XnliProcessor", "classifier_utils.XnliProcessor"}
    THEN {[premise |-> "a", hypo |-> "c"],
          [premise |-> "a", hypo |-> "c", label |-> "neutral"]}
    ELSE IF cls = "classifier_utils.AFQMCProcessor"
    THEN {[sentence1 |-> "a", sentence2 |-> "c"],
          [sentence1 |-> "a", sentence2 |-> "c", label |-> "1"]}
    ELSE {[sentence |-> "c"], [sentence |-> "c", label |-> "101"]}

CallJsonCreateExamples ==
    /\ call = NoCall
    /\ \E cls \in JsonProcessors, set_type \in {"train", "dev", "test"} :
          \E lines \in SeqsUpTo(JsonLinesOf(cls), MaxRows) :
             /\ call' = [fn |-> "_create_examples", cls |-> cls, lines |-> lines,
                         set_type |-> set_type]
             /\ ret' = JsonCreateExamples(cls, lines, set_type)
    /\ UNCHANGED mainVars

\* The encoder called on one example.
Texts == {"a", "A", "b b", "B b", "c c c", "d d d d"}

ConvertInputs ==
    {[example |-> PaddingInputExample, label_list |-> ll] :
        ll \in {<<"0", "1">>, NoLabelList}}
    \cup {[example |-> InputExample("g", ta, tb, lab), label_list |-> ll] :
            ta \in Texts, tb \in Texts \cup {None}, lab \in {"0", "1", "2", None},
            ll \in {<<"0", "1">>, <<"0", "1", "2">>}}
    \cup {[example |-> InputExample("g", ta, tb, lab), label_list |-> NoLabelList] :
            ta \in Texts, tb \in Texts \cup {None}, lab \in {"0.5", "0.1", None}}

CallConvertSingleExample ==
    /\ call = NoCall
    /\ \E in \in ConvertInputs, max_seq_length \in 0..MaxSeqLength, uncased \in BOOLEAN :
          /\ call' = [fn |-> "convert_single_example", example |-> in.example,
                      label_list |-> in.label_list, max_seq_length |-> max_seq_length,
                      uncased |-> uncased, tokenized |-> tokenized_texts(in.example)]
          /\ ret' = convert_single_example(0, in.example, in.label_list,
                                           max_seq_length, uncased)
    /\ UNCHANGED mainVars

\* The truncation loop called on two token lists, one pass per step; ret
\* holds the two lists, which the loop shortens in place.
TokensOfLen(n, first) == [i \in 1..n |-> first + i]

TruncationInputs ==
    {<<la, lb, max_length>> : la \in 0..MaxTokens, lb \in 0..MaxTokens,
                              max_length \in 0..MaxTokens}
    \cup {<<100, 5, 20 - 3>>}

CallTruncateSeqPair ==
    /\ call = NoCall
    /\ \E in \in TruncationInputs :
          /\ call' = [fn |-> "_truncate_seq_pair", tokens_a |-> TokensOfLen(in[1], 100),
                      tokens_b |-> TokensOfLen(in[2], 200), max_length |-> in[3],
                      pc |-> "loop"]
          /\ ret' = <<call'.tokens_a, call'.tokens_b>>
    /\ UNCHANGED mainVars

TruncateStep ==
    /\ call.fn = "_truncate_seq_pair"
    /\ call.pc = "loop"
    /\ IF Len(ret[1]) + Len(ret[2]) <= call.max_length
       THEN call' = [call EXCEPT !.pc = "done"] /\ UNCHANGED ret
       ELSE ret' = pop_longer(ret[1], ret[2]) /\ UNCHANGED call
    /\ UNCHANGED mainVars

\* get_labels of an adapter object, whatever its data directory holds and
\* however often it was called before.
CallGetLabels ==
    /\ call = NoCall
    /\ \E cls \in AdapterClasses, nth \in 1..MaxRows,
          data_dir \in {DataDir(n, n, n, l) : n \in 0..MaxRows, l \in {"std", "frac"}} :
          /\ call' = [fn |-> "get_labels", cls |-> cls, nth |-> nth, data_dir |-> data_dir]
          /\ ret' = ClassLabels(cls)
    /\ UNCHANGED mainVars

\* ImdbProcessor.  A file of a label directory is its name, as what comes
\* before the last three characters and those three, and its content.
ImdbFile(stem, ending, content) == [stem |-> stem, ending |-> ending, content |-> content]

\* filename.endswith("txt")
EndsWithTxt(filename) == filename.ending = "txt"

\* f.read().strip().replace("<br />", " ")
CleanReview(content) ==
    CASE content = " a " -> "a"
      [] content = "a<br />b" -> "a b"
      [] OTHER -> content

\* The examples of the files of one label directory, in listing order.
ImdbLabelExamples(listing, label) ==
    LET kept == SelectSeq(listing, EndsWithTxt)
    IN  [k \in DOMAIN kept |->
            InputExample("unused_id", CleanReview(kept[k].content), None, label)]

\* A variant of ImdbProcessor_create_examples: the pos directory is read first.
ImdbProcessor_create_examples_PosFirst(data_dir) ==
    [error |-> "none",
     examples |-> ImdbLabelExamples(data_dir.pos, "pos") \o ImdbLabelExamples(data_dir.neg, "neg")]

\* ImdbProcessor._create_examples, lines 695-708: for label in ["neg", "pos"],
\* for filename in ListDirectory(data_dir/label).
ImdbProcessor_create_examples(data_dir) ==
    [error |-> "none",
     examples |-> ImdbLabelExamples(data_dir.neg, "neg") \o ImdbLabelExamples(data_dir.pos, "pos")]

ImdbFiles ==
    {ImdbFile("0_3.", "txt", "c c c"), ImdbFile("1_7.", "txt", " a "),
     ImdbFile("2_1.", "txt", "a<br />b"), ImdbFile("urls.j", "son", "c c c")}

ImdbListings ==
    {l \in SeqsUpTo(ImdbFiles, MaxRows) : \A i, j \in DOMAIN l : i # j => l[i] # l[j]}

CallImdbCreateExamples ==
    /\ call = NoCall
    /\ \E neg \in ImdbListings, pos \in ImdbListings :
          /\ call' = [fn |-> "_create_examples", cls |-> "ImdbProcessor",
                      data_dir |-> [neg |-> neg, pos |-> pos]]
          /\ ret' = ImdbProcessor_create_examples(call'.data_dir)
    /\ UNCHANGED mainVars

\* GLUEProcessor._create_examples on an object whose header flags were set
\* by its owner (a subclass or the caller), the columns being fixed.
CallGLUEHeaderFlags ==
    /\ call = NoCall
    /\ \E lines \in SeqsUpTo(ShortRows, MaxRows), set_type \in {"train", "dev", "test"},
          contains_header \in BOOLEAN, test_contains_header \in BOOLEAN :
          LET self == [GLUEProcessor(0, 1, NoColumn) EXCEPT
                          !.contains_header = contains_header,
                          !.test_contains_header = test_contains_header]
          IN  /\ call' = [fn |-> "_create_examples", cls |-> "GLUEProcessor",
                          self |-> self, lines |-> lines, set_type |-> set_type]
              /\ ret' = GLUEProcessor_create_examples(self, lines, set_type)
    /\ UNCHANGED mainVars

CallCSCGetExamples ==
    /\ call = NoCall
    /\ \E lines \in SeqsUpTo(ShortRows, MaxRows), set_type \in {"train", "dev", "test"} :
          /\ call' = [fn |-> "get_examples", cls |-> "CSCProcessor", lines |-> lines,
                      set_type |-> set_type]
          /\ ret' = CSCProcessor_get_examples(lines, set_type)
    /\ UNCHANGED mainVars

NextCalls ==
    \/ CallCSCGetExamples
    \/ CallGLUEHeaderFlags
    \/ CallImdbCreateExamples
    \/ CallGetLabels
    \/ CallConvertSingleExample
    \/ CallGLUECreateExamples
    \/ CallTextCreateExamples
    \/ CallJsonCreateExamples

SpecCalls == Init /\ [][NextCalls]_vars

\* The truncation loop alone.  It is straight-line code of one thread: a
\* pass that can run, runs.
NextTruncation ==
    \/ CallTruncateSeqPair
    \/ TruncateStep

\* Before the call ret holds two empty token lists, so that ret is a pair of
\* lists in every state of the loop's specification.
InitTruncation ==
    /\ FLAGS = BaseFlags
    /\ pc = "idle"
    /\ dirs = {}
    /\ files = NoFiles
    /\ io = {}
    /\ err = "none"
    /\ train_examples = <<>>
    /\ eval_examples = <<>>
    /\ train_steps = 0
    /\ eval_steps = 0
    /\ rd = IdleReader
    /\ runs = 0
    /\ used = {}
    /\ evaluation = NoEvaluation
    /\ call = NoCall
    /\ ret = <<(<<>>), (<<>>)>>

SpecTruncation == InitTruncation /\ [][NextTruncation]_vars /\ WF_vars(TruncateStep)

(***************************************************************************)
(* The checkpoint loop and the report of an evaluation, lines 1301-1348.   *)
(* A file of model_dir is its name before the step, the step when the      *)
(* name ends in "-<digits>" before the suffix, and the suffix.  The        *)
(* metrics of estimator.evaluate come from outside the program.            *)
(***************************************************************************)
ModelDirFiles ==
    {File("model.ckpt", <<2>>, ".index"), File("model.ckpt", <<9>>, ".index"),
     File("model.ckpt", <<10>>, ".index"), File("model.ckpt", <<10>>, ".meta"),
     File("best", <<10>>, ".index"), File("checkpoint", <<>>, ""),
     File("graph", <<>>, ".index")}

\* tf.gfile.ListDirectory: the names of the directory, each once, in any order.
Listings ==
    {l \in SeqsUpTo(ModelDirFiles, MaxCkpt) : \A i, j \in DOMAIN l : i # j => l[i] # l[j]}

\* sorted(ret.items()): the keys in rising order.
SortedKeys(is_regression) ==
    IF is_regression THEN <<"eval_loss", "eval_pearsonr", "path", "step">>
    ELSE <<"eval_accuracy", "eval_loss", "path", "step">>

\* The lines the loop at 1329-1331 writes for one result.
ReportLines(result, is_regression) ==
    [k \in 1..4 |-> [key |-> SortedKeys(is_regression)[k],
                     val |-> result[SortedKeys(is_regression)[k]]]]

\* Lines 1301-1320: the directory is listed and the checkpoints are chosen.
CallEvaluate ==
    /\ call = NoCall
    /\ \E filenames \in Listings, eval_all_ckpt \in BOOLEAN, is_regression \in BOOLEAN :
          /\ call' = [fn |-> "evaluate", filenames |-> filenames,
                      eval_all_ckpt |-> eval_all_ckpt, is_regression |-> is_regression]
          /\ ret' = IF \E k \in DOMAIN filenames :
                          IsIndexFile(filenames[k]) /\ ~HasStep(filenames[k])
                    THEN [pc |-> "failed", error |-> "ValueError", steps_and_files |-> <<>>,
                          eval_results |-> <<>>, report |-> <<>>, log |-> <<>>]
                    ELSE [pc |-> "loop", error |-> "none",
                          steps_and_files |-> steps_and_files(filenames, eval_all_ckpt),
                          eval_results |-> <<>>, report |-> <<>>, log |-> <<>>]
    /\ UNCHANGED mainVars

\* Lines 1325-1339: one checkpoint is evaluated and its lines are written.
EvaluateCheckpoint ==
    /\ call.fn = "evaluate"
    /\ ret.pc = "loop"
    /\ Len(ret.eval_results) < Len(ret.steps_and_files)
    /\ \E metric \in 0..MaxMetric :
          LET next == StableSort(ret.steps_and_files, FALSE)[Len(ret.eval_results) + 1]
              result == EvalResult(call.is_regression, metric, 0, next[1], next[2])
          IN  ret' = [ret EXCEPT !.eval_results = Append(@, result),
                                 !.report = @ \o ReportLines(result, call.is_regression),
                                 !.log = Append(@, <<"Eval result", result>>)]
    /\ UNCHANGED <<call, mainVars>>

\* Lines 1341-1348: the results are sorted by the primary metric, largest
\* first, and the first one is logged; eval_results[0] of an empty list
\* raises IndexError.
EvaluateBest ==
    /\ call.fn = "evaluate"
    /\ ret.pc = "loop"
    /\ Len(ret.eval_results) = Len(ret.steps_and_files)
    /\ LET sorted == SortByMetric(ret.eval_results, call.is_regression)
       IN  IF sorted = <<>>
           THEN ret' = [ret EXCEPT !.pc = "failed", !.error = "IndexError"]
           ELSE ret' = [ret EXCEPT !.pc = "done", !.eval_results = sorted,
                                   !.log = Append(@, <<"Best result", sorted[1]>>)]
    /\ UNCHANGED <<call, mainVars>>

NextReport ==
    \/ CallEvaluate
    \/ EvaluateCheckpoint
    \/ EvaluateBest

SpecReport == Init /\ [][NextReport]_vars

(***************************************************************************)
(* The padding loop, lines 1265-1278, in one evaluation run of main(): the *)
(* run comes to the loop by the steps of lines 1162-1266 and the           *)
(* behaviours end where the loop has ended.  The loop is straight-line     *)
(* code of one thread: a turn that can run, runs.                          *)
(***************************************************************************)
NextAligner ==
    \/ StartRun(EvalConfigs, 1, FALSE)
    \/ MakePredictDir \/ CheckModes \/ MakeOutputDir \/ LookupTask
    \/ TrainSkip \/ LoadEval
    \/ AlignAppend
    \/ AlignDone

SpecAligner ==
    Init /\ [][NextAligner]_vars /\ WF_vars(AlignAppend) /\ WF_vars(AlignDone)

(***************************************************************************)
(* Properties.                                                             *)
(***************************************************************************)
\* The examples the evaluation of the current run loaded, before alignment.
LoadedEval == get_devtest_examples(TaskName(FLAGS), FLAGS.data_dir, FLAGS.eval_split)

NumPadding(examples) == Cardinality({i \in DOMAIN examples : IsPadding(examples[i])})

NumNotReal(container) ==
    Cardinality({i \in DOMAIN container : container[i].is_real_example.value = <<0>>})

\* C1: when the padding loop has ended, the aligned list has a length that
\* is a multiple of eval_batch_size, starts with the loaded examples in
\* their order, and holds only PaddingInputExample elements after them.
C1_BatchAlignment ==
    pc = "eval_convert" =>
        /\ Len(eval_examples) % FLAGS.eval_batch_size = 0
        /\ Len(eval_examples) >= Len(LoadedEval)
        /\ SubSeq(eval_examples, 1, Len(LoadedEval)) = LoadedEval
        /\ \A i \in (Len(LoadedEval) + 1)..Len(eval_examples) : IsPadding(eval_examples[i])

\* C1 witness: a non-empty list that the loop has padded.
C1_Witness ==
    /\ pc = "eval_convert"
    /\ Len(LoadedEval) > 0
    /\ Len(eval_examples) > Len(LoadedEval) + 1

\* C2: with overwrite_data false, a step of a run that converts with
\* file_based_convert_examples_to_features leaves every existing container
\* as it is, whatever examples the run converts.
C2_NoClobber ==
    [][(~FLAGS.overwrite_data /\ TaskName(FLAGS) # "inews") =>
          \A p \in DOMAIN files : p \in DOMAIN files' /\ files'[p] = files[p]]_vars

\* C2 witness: the writer was called on an existing container with a list of
\* another length, and the container still has its old length.
C2_Witness ==
    /\ pc = "evaluate"
    /\ TaskName(FLAGS) = "lcqmc"
    /\ ~FLAGS.overwrite_data
    /\ "write eval" \notin io
    /\ Len(files[eval_file_of(FLAGS)]) # Len(eval_examples)

\* C3: with overwrite_data false, no step of any run, whatever its task and
\* split, changes an existing container.
C3_NoClobberEveryPath ==
    [][~FLAGS.overwrite_data =>
          \A p \in DOMAIN files : p \in DOMAIN files' /\ files'[p] = files[p]]_vars

\* The feature the writer encodes for the k-th example of the list that the
\* current run converted last, and the k-th record the reader gave, decoded.
FeatureOf(k) ==
    convert_single_example(k - 1, eval_examples[k], label_list_of(FLAGS),
                           FLAGS.max_seq_length, FLAGS.uncased)

ReadBack(k) == decode_record(Container(rd)[rd.out[k]], Schema)

\* The current run wrote the container of its ordered reader with
\* file_based_convert_examples_to_features and reads it back.
RoundTripCase ==
    /\ pc \in {"evaluate", "predict", "predicting", "done"}
    /\ rd.file # <<>>
    /\ ~rd.is_training
    /\ TaskName(FLAGS) # "inews"
    /\ \/ rd.file = eval_file_of(FLAGS) /\ "write eval" \in io
       \/ rd.file = predict_file_of(FLAGS) /\ "write predict" \in io

\* The reader has given all it gives to the run.
ReaderFinished ==
    \/ rd.ended
    \/ rd.drop_remainder /\ eval_steps > 0 /\ rd.batches = eval_steps

SameSequences(record, feature) ==
    /\ record.input_ids = feature.input_ids
    /\ record.input_mask = IntsAsFloats(feature.input_mask)
    /\ record.segment_ids = feature.segment_ids
    /\ record.is_real_example = BoolToInt(feature.is_real_example)

\* C4: the records read back are the written features, in number, in order
\* and in every field value, label_ids included.
C4_RoundTripExact ==
    RoundTripCase =>
        /\ \A k \in DOMAIN rd.out :
              /\ rd.out[k] = k
              /\ SameSequences(ReadBack(k), FeatureOf(k))
              /\ ReadBack(k).label_ids = FeatureOf(k).label_id
        /\ ReaderFinished => Len(rd.out) = Len(eval_examples)

\* The containers the current run wrote.
WrittenThisRun ==
    (IF "write train" \in io THEN {train_file_of(FLAGS)} ELSE {})
    \cup (IF "write eval" \in io THEN {eval_file_of(FLAGS)} ELSE {})
    \cup (IF "write predict" \in io THEN {predict_file_of(FLAGS)} ELSE {})

\* C5: every field of every record a run writes has the list kind that the
\* reader's schema of that run declares for the field.
C5_SchemaAgreement ==
    \A p \in WrittenThisRun : \A i \in DOMAIN files[p] : \A name \in FieldNames :
        files[p][i][name].kind = KindOfDtype(Schema[name].dtype)

\* C6: when the evaluation of a run starts reading, the container of the
\* general writer holds eval_steps * eval_batch_size records.
C6_NoExampleDropped ==
    (pc = "evaluate" /\ TaskName(FLAGS) # "inews") =>
        Len(files[eval_file_of(FLAGS)]) = eval_steps * FLAGS.eval_batch_size

\* C7: two conversions whose tokenizer configuration, max_seq_length or
\* split differ use different container paths.
C7_ContainerIdentity ==
    \A u \in used : \A v \in used : u.key # v.key => u.path # v.path

\* C8: a container that file_based_convert_examples_to_features has written
\* holds one record per element of the list it was given, num_passes times
\* over, and as many records that are not real as the list has padding
\* elements; 10 examples and eval_batch_size 4 give 12 records, 2 not real.
C8_RecordCount ==
    /\ (pc = "evaluate" /\ "write eval" \in io /\ TaskName(FLAGS) # "inews") =>
          LET c == files[eval_file_of(FLAGS)]
          IN  /\ Len(c) = Len(eval_examples)
              /\ NumNotReal(c) = NumPadding(eval_examples)
              /\ (Len(LoadedEval) = 10 /\ FLAGS.eval_batch_size = 4) =>
                     (Len(c) = 12 /\ NumNotReal(c) = 2)
    /\ (pc = "training" /\ "write train" \in io /\ TaskName(FLAGS) # "inews") =>
          LET c == files[train_file_of(FLAGS)]
          IN  /\ Len(c) = FLAGS.num_passes
                              * Len(get_train_examples(TaskName(FLAGS), FLAGS.data_dir))
              /\ NumNotReal(c) = 0
    /\ (pc = "predicting" /\ "write predict" \in io /\ TaskName(FLAGS) # "inews") =>
          LET c == files[predict_file_of(FLAGS)]
          IN  /\ Len(c) = Len(get_test_examples(TaskName(FLAGS), FLAGS.data_dir))
              /\ NumNotReal(c) = 0

\* C8 witness: the 10-example evaluation with eval_batch_size 4 has written.
C8_Witness ==
    /\ pc = "evaluate"
    /\ "write eval" \in io
    /\ TaskName(FLAGS) = "lcqmc"
    /\ Len(LoadedEval) = 10
    /\ FLAGS.eval_batch_size = 4
    /\ Len(files[eval_file_of(FLAGS)]) = 12

\* C9: a training reader keeps at most shuffle_buffer records in its buffer
\* and never ends; an ordered reader gives the records in write order and,
\* when it ends, has given every record of the container once.
C9_ReaderModes ==
    /\ rd.is_training => (~rd.ended /\ Cardinality(rd.buf) <= FLAGS.shuffle_buffer)
    /\ (~rd.is_training /\ rd.file # <<>>) =>
          /\ \A k \in DOMAIN rd.out : rd.out[k] = k
          /\ rd.ended => Len(rd.out) = Len(Container(rd))

\* C10: when main has raised "Task not found", the run has made no
\* directory and read or written no file.
C10_UnknownTaskNoIO ==
    err = "ValueError: Task not found" => io = {}

\* The errors by which an adapter operation fails as unsupported.
UnsupportedErrors == {"AttributeError: get_devtest_examples"}

\* C11: a run of a task of the processors table never fails because its
\* adapter lacks an operation main calls for an enabled mode.
C11_AdapterCapabilities ==
    TaskName(FLAGS) \in processors => err \notin UnsupportedErrors

\* The line numbers (from 0) of the rows of a TSV call that have every column
\* the call needs: text_a, text_b when set, and the label unless test.
CompleteRows ==
    LET needed == {call.self.text_a_column}
                  \cup Range(call.self.text_b_column)
                  \cup (IF call.set_type = "test" THEN {} ELSE {call.self.label_column})
    IN  {i \in 1..(Len(call.lines) - 1) :
            \A c \in needed : HasIndex(call.lines[i + 1], c)}

IsGLUECall ==
    call.fn = "_create_examples" /\ call.cls \in {"GLUEProcessor", "StsbProcessor"}

\* C12: a _create_examples call of GLUEProcessor or StsbProcessor does not
\* raise and returns one example per non-header row that has the needed
\* columns, in row order.
C12_ShortRowsSkipped ==
    IsGLUECall =>
        /\ ret.error = "none"
        /\ Len(ret.examples) = Cardinality(CompleteRows)
        /\ \A k \in DOMAIN ret.examples :
              /\ ret.examples[k].guid[2] \in CompleteRows
              /\ \A j \in 1..(k - 1) : ret.examples[j].guid[2] < ret.examples[k].guid[2]

\* The columns (from 0) an adapter for delimited text needs of a row.
RequiredColumns(cls, set_type) ==
    CASE cls = "THUCNewsProcessor" -> {0, 3}
      [] cls = "InewsProcessor" -> IF set_type = "test" THEN {2, 3} ELSE {0, 2, 3}
      [] cls = "CSCProcessor" -> {0, 1}
      [] OTHER -> {0, 1, 2}

\* The line numbers (from 0) of the rows of a delimited-text call that have
\* every required column.
FullRows ==
    {i \in 1..(Len(call.lines) - 1) :
        \A c \in RequiredColumns(call.cls, call.set_type) : HasIndex(call.lines[i + 1], c)}

\* C13: a _create_examples call of THUCNewsProcessor, InewsProcessor,
\* LCQMCProcessor or BQProcessor does not raise, and returns one example per
\* non-header row that has the required columns, in row order.
C13_PartialFailure ==
    (call.fn = "_create_examples" /\ call.cls \in TextProcessors) =>
        /\ ret.error = "none"
        /\ Len(ret.examples) = Cardinality(FullRows)
        /\ \A k \in DOMAIN ret.examples :
              /\ ret.examples[k].guid[2] \in FullRows
              /\ \A j \in 1..(k - 1) : ret.examples[j].guid[2] < ret.examples[k].guid[2]

\* C14: a test-split call of a JSON-lines adapter, on lines with or without
\* a label field, does not raise and gives every example the label None.
C14_TestLabelsNone ==
    (call.fn = "_create_examples" /\ call.cls \in JsonProcessors /\ call.set_type = "test") =>
        /\ ret.error = "none"
        /\ Len(ret.examples) = Len(call.lines)
        /\ \A k \in DOMAIN ret.examples : ret.examples[k].label = None

\* C15: get_labels of every adapter returns a sequence without duplicates;
\* for TnewsProcessor it is '100'..'116' in rising order without '105' and
\* '111', 15 strings, on every call and for every data directory.
C15_LabelVocabulary ==
    call.fn = "get_labels" =>
        /\ \A i \in DOMAIN ret : \A j \in DOMAIN ret : i # j => ret[i] # ret[j]
        /\ call.cls \in {"TnewsProcessor", "classifier_utils.TnewsProcessor"} =>
              ret = <<"100", "101", "102", "103", "104", "106", "107", "108", "109",
                      "110", "112", "113", "114", "115", "116">>

\* C15 witness: a second call of TnewsProcessor.get_labels, on a directory
\* with data, has returned 15 labels.
C15_Witness ==
    /\ call.fn = "get_labels"
    /\ call.cls = "TnewsProcessor"
    /\ call.nth = 2
    /\ call.data_dir.train > 0
    /\ Len(ret) = 15

\* The marker slots the encoder reserves: 3 for a pair, 2 for a single text.
ReservedSlots(example) == IF example.text_b = None THEN 2 ELSE 3

\* The three arrays of a feature have max_seq_length elements and the sum
\* of input_mask is the number of positions of input_ids that are not
\* padding.
LengthsAre(feature, max_seq_length) ==
    /\ Len(feature.input_ids) = max_seq_length
    /\ Len(feature.input_mask) = max_seq_length
    /\ Len(feature.segment_ids) = max_seq_length
    /\ SeqSum(feature.input_mask) =
          Cardinality({i \in DOMAIN feature.input_ids : feature.input_ids[i] # 0})

InTruncation == call.fn = "_truncate_seq_pair"

\* A pass of the truncation loop that removed a token.
TruncationPass == InTruncation /\ ret' # ret

\* C17: the truncation loop ends; a pass removes a token only while the two
\* lists exceed the budget, exactly one, from the strictly longer list and
\* from text_b when they are equally long; the loop ends with the lists
\* within the budget; and lists of 100 and 5 tokens with max_seq_length 20
\* and 3 reserved slots end as 12 and 5 tokens.
C17_Truncation ==
    /\ [][TruncationPass =>
            /\ Len(ret[1]) + Len(ret[2]) > call.max_length
            /\ Len(ret[1]) > Len(ret[2]) =>
                  /\ ret'[1] = SubSeq(ret[1], 1, Len(ret[1]) - 1)
                  /\ ret'[2] = ret[2]
            /\ Len(ret[1]) <= Len(ret[2]) =>
                  /\ ret'[1] = ret[1]
                  /\ ret'[2] = SubSeq(ret[2], 1, Len(ret[2]) - 1)]_vars
    /\ []((InTruncation /\ call.pc = "done") =>
            /\ Len(ret[1]) + Len(ret[2]) <= call.max_length
            /\ ret = truncate_seq_pair(call.tokens_a, call.tokens_b, call.max_length)
            /\ (Len(call.tokens_a) = 100 /\ Len(call.tokens_b) = 5
                /\ call.max_length = 20 - 3) =>
                  (Len(ret[1]) = 12 /\ ret[2] = call.tokens_b))
    /\ (InTruncation ~> (InTruncation /\ call.pc = "done"))

\* C17 witness: the loop has ended on lists of 100 and 5 tokens with budget
\* 17, having shortened the first.
C17_Witness ==
    /\ InTruncation
    /\ call.pc = "done"
    /\ Len(call.tokens_a) = 100
    /\ Len(call.tokens_b) = 5
    /\ call.max_length = 17
    /\ Len(ret[1]) < 100

\* C18: for a padding example the encoder returns input_ids, input_mask and
\* segment_ids of zeros only, label_id 0 (0.0 in a regression task) and
\* is_real_example false, and hands no text to the tokenizer.
C18_PaddingEncoding ==
    (call.fn = "convert_single_example" /\ IsPadding(call.example)) =>
        /\ ret.input_ids = Zeros(call.max_seq_length)
        /\ ret.input_mask = Zeros(call.max_seq_length)
        /\ ret.segment_ids = Zeros(call.max_seq_length)
        /\ ret.label_id = (IF call.label_list = NoLabelList THEN FloatOfInt(0) ELSE 0)
        /\ ret.is_real_example = FALSE
        /\ call.tokenized = <<>>

\* C18 witness: a padding example was encoded for a regression task.
C18_Witness ==
    /\ call.fn = "convert_single_example"
    /\ IsPadding(call.example)
    /\ call.label_list = NoLabelList
    /\ call.max_seq_length > 3
    /\ Len(ret.input_ids) = call.max_seq_length

\* The call encodes a real example of a classification task.
ClassificationCall ==
    /\ call.fn = "convert_single_example"
    /\ ~IsPadding(call.example)
    /\ call.label_list # NoLabelList

InVocabulary(label, label_list) == \E i \in DOMAIN label_list : label_list[i] = label

\* C19: a label of the vocabulary maps to its position in it (from 0); the
\* label None maps to 0 in a classification task and to 0.0 in a regression
\* task; a label that is not None and not in the vocabulary makes the
\* encoder fail with LabelNotFoundError, and no feature is returned.
C19_LabelMapping ==
    /\ (ClassificationCall /\ call.example.label # None
        /\ InVocabulary(call.example.label, call.label_list)) =>
          /\ ~IsError(ret)
          /\ ret.label_id \in 0..(Len(call.label_list) - 1)
          /\ call.label_list[ret.label_id + 1] = call.example.label
    /\ (ClassificationCall /\ call.example.label = None) =>
          (~IsError(ret) /\ ret.label_id = 0)
    /\ (call.fn = "convert_single_example" /\ ~IsPadding(call.example)
        /\ call.label_list = NoLabelList /\ call.example.label = None) =>
          (~IsError(ret) /\ ret.label_id = FloatOfInt(0))
    /\ (ClassificationCall /\ call.example.label # None
        /\ ~InVocabulary(call.example.label, call.label_list)) =>
          ret = LabelNotFoundError

\* C19 witness: an example labelled '2' was given to the encoder with the
\* vocabulary '0', '1', and the encoder failed.
C19_Witness ==
    /\ ClassificationCall
    /\ call.example.label = "2"
    /\ call.label_list = <<"0", "1">>
    /\ IsError(ret)

\* The prediction split of the run and the record of its k-th example.
PredictionSplit == get_test_examples(TaskName(FLAGS), FLAGS.data_dir)

RecordOfExample(k) ==
    tf_example(convert_single_example(k - 1, PredictionSplit[k], label_list_of(FLAGS),
                                      FLAGS.max_seq_length, FLAGS.uncased),
               label_list_of(FLAGS))

\* C20: when a do_predict run is done, the table is the header row
\* 'index\tprediction' and one row per example of the prediction split, the
\* k-th (from 0) with index k and the prediction for the k-th example, and
\* the JSON array holds the score vectors of the same examples in that order.
C20_PredictionOrder ==
    (pc = "done" /\ FLAGS.do_predict) =>
        /\ fout(rd)[1] = "index\tprediction"
        /\ Len(fout(rd)) = 1 + Len(PredictionSplit)
        /\ Len(predict_results(rd)) = Len(PredictionSplit)
        /\ \A k \in DOMAIN PredictionSplit :
              /\ fout(rd)[k + 1].pred_cnt = k - 1
              /\ fout(rd)[k + 1].label_out_of = RecordOfExample(k)
              /\ predict_results(rd)[k].logits_of = RecordOfExample(k)

\* The evaluation of the checkpoints has ended with a best result.
ReportDone == call.fn = "evaluate" /\ ret.pc = "done"

\* Every checkpoint evaluated has its block of the report, one line per key
\* of its result.
OneLinePerKey ==
    /\ Len(ret.report) = 4 * Len(ret.steps_and_files)
    /\ \A k \in DOMAIN ret.steps_and_files :
          /\ \A key \in {key_name(call.is_regression), "eval_loss", "path", "step"} :
                Cardinality({i \in (4 * (k - 1) + 1)..(4 * k) : ret.report[i].key = key}) = 1
          /\ \E i \in (4 * (k - 1) + 1)..(4 * k) :
                /\ ret.report[i].key = "path"
                /\ ret.report[i].val = <<StableSort(ret.steps_and_files, FALSE)[k][2]>>

\* The last log line names a result whose primary metric no result exceeds.
BestIsLogged ==
    LET line == ret.log[Len(ret.log)]
    IN  /\ line[1] = "Best result"
        /\ \E k \in DOMAIN ret.eval_results : ret.eval_results[k] = line[2]
        /\ \A k \in DOMAIN ret.eval_results :
              ret.eval_results[k][key_name(call.is_regression)][1]
                  <= line[2][key_name(call.is_regression)][1]

\* C21: when at least one checkpoint was evaluated, the report file has one
\* 'key = value' line per key of each checkpoint's result, a best result is
\* given for a checkpoint of maximal primary metric (eval_pearsonr in a
\* regression task, eval_accuracy otherwise), and the report file holds the
\* line of that best result.
C21_EvaluationReport ==
    ReportDone =>
        /\ OneLinePerKey
        /\ BestIsLogged
        /\ \E i \in DOMAIN ret.report : ret.report[i].key = "Best result"

\* C22: the example list that is encoded and written has a length that is a
\* multiple of eval_batch_size on the evaluation path and of
\* predict_batch_size on the prediction path, and the training list never
\* holds a PaddingInputExample.
C22_AlignmentPlacement ==
    /\ pc \in {"eval_convert", "evaluate"} =>
          Len(eval_examples) % FLAGS.eval_batch_size = 0
    /\ pc = "predicting" => Len(eval_examples) % FLAGS.predict_batch_size = 0
    /\ \A k \in DOMAIN train_examples : ~IsPadding(train_examples[k])

IsImdbCall == call.fn = "_create_examples" /\ call.cls = "ImdbProcessor"

\* The files of the two label directories, those of neg first, each with
\* the name of its directory.
ImdbFilesFound ==
    [k \in DOMAIN call.data_dir.neg |-> <<call.data_dir.neg[k], "neg">>]
    \o [k \in DOMAIN call.data_dir.pos |-> <<call.data_dir.pos[k], "pos">>]

ImdbTxtFilesFound == SelectSeq(ImdbFilesFound, LAMBDA f : f[1].ending = "txt")

\* C23 as stated: ImdbProcessor._create_examples returns one example per
\* file of the neg and pos directories, labelled with the directory's name,
\* and leaves no file out.
C23_OneExamplePerFile ==
    IsImdbCall =>
        /\ Len(ret.examples) = Len(ImdbFilesFound)
        /\ \A k \in DOMAIN ImdbFilesFound : ret.examples[k].label = ImdbFilesFound[k][2]

\* C23 amended: ImdbProcessor._create_examples returns one example per file
\* whose name ends in 'txt', in the order neg then pos and in listing order,
\* labelled with the directory's name and holding the file's cleaned text;
\* files of other names give no example.
C23_OneExamplePerTxtFile ==
    IsImdbCall =>
        /\ ret.error = "none"
        /\ Len(ret.examples) = Len(ImdbTxtFilesFound)
        /\ \A k \in DOMAIN ImdbTxtFilesFound :
              /\ ret.examples[k].label = ImdbTxtFilesFound[k][2]
              /\ ret.examples[k].text_a = CleanReview(ImdbTxtFilesFound[k][1].content)
              /\ ret.examples[k].text_b = None

\* C23 witness: both directories hold a review, pos also a file that is not
\* one, and two examples were returned.
C23_Witness ==
    /\ IsImdbCall
    /\ Len(call.data_dir.neg) = 1
    /\ Len(call.data_dir.pos) = 2
    /\ \E k \in DOMAIN call.data_dir.pos : call.data_dir.pos[k].ending # "txt"
    /\ Len(ret.examples) = 2
    /\ ret.examples[1].label = "neg"
    /\ ret.examples[2].label = "pos"

\* The line numbers (from 0) of the examples returned.
RowsReturned == {ret.examples[k].guid[2] : k \in DOMAIN ret.examples}

\* The header flag of the split of a GLUEProcessor call.
HeaderFlag ==
    IF call.set_type = "test" THEN call.self.test_contains_header
    ELSE call.self.contains_header

\* Whether line i of a GLUEProcessor call has the columns its split needs.
GLUERowComplete(i) ==
    \A c \in {call.self.text_a_column} \cup Range(call.self.text_b_column)
             \cup (IF call.set_type = "test" THEN {} ELSE {call.self.label_column}) :
        HasIndex(call.lines[i + 1], c)

\* C24: GLUEProcessor._create_examples leaves out line 0 when the header
\* flag of the split is set (contains_header for train and dev,
\* test_contains_header for test) and returns it, when complete, if that
\* flag is clear, whatever the other flag is; every later complete line is
\* returned; the delimited-text adapters (Inews, THUCNews, LCQMC, BQ, CSC)
\* leave out line 0 and return every later line that has their columns.
C24_HeaderRows ==
    /\ (call.fn = "_create_examples" /\ call.cls = "GLUEProcessor") =>
          /\ HeaderFlag => 0 \notin RowsReturned
          /\ (~HeaderFlag /\ call.lines # <<>> /\ GLUERowComplete(0)) => 0 \in RowsReturned
          /\ \A i \in 1..(Len(call.lines) - 1) : GLUERowComplete(i) => i \in RowsReturned
    /\ (call.fn \in {"_create_examples", "get_examples"}
        /\ call.cls \in TextProcessors \cup {"CSCProcessor"}) =>
          /\ 0 \notin RowsReturned
          /\ ret.error = "none" => RowsReturned = FullRows

\* C24 witness: a train call with contains_header clear and
\* test_contains_header set has returned lines 0 and 1.
C24_Witness ==
    /\ call.fn = "_create_examples"
    /\ call.cls = "GLUEProcessor"
    /\ call.set_type = "train"
    /\ ~call.self.contains_header
    /\ call.self.test_contains_header
    /\ RowsReturned = {0, 1}

\* C25: within one adapter call the guids of the examples returned are
\* pairwise distinct.
C25_UniqueGuids ==
    (call # NoCall /\ call.fn \in {"_create_examples", "get_examples"}) =>
        \A j, k \in DOMAIN ret.examples :
            j # k => ret.examples[j].guid # ret.examples[k].guid

\* C27: after the conversion of the training split the caller's list is the
\* list the adapter returned, in the shuffled order, whatever num_passes is
\* and whether the container existed, and train_steps is
\* floor(n * num_train_epochs / train_batch_size) for its n examples.
C27_WriterKeepsList ==
    pc = "training" =>
        LET n == Len(get_train_examples(TaskName(FLAGS), FLAGS.data_dir))
        IN  /\ Len(train_examples) = n
            /\ train_steps = (n * FLAGS.num_train_epochs) \div FLAGS.train_batch_size

\* The examples of the file <set_type> of data_dir, as the adapter of the
\* task builds them for that split.
ExamplesOfSplit(task_name, data_dir, set_type) ==
    IF task_name = "inews"
    THEN InewsProcessor_create_examples(read_txt(data_dir, set_type), set_type).examples
    ELSE LCQMCProcessor_create_examples(read_tsv(data_dir, set_type), set_type).examples

\* C28: the examples an evaluation run has loaded, the padding elements
\* apart, are those of the file of the split that eval_split names.
C28_EvalSplitSelection ==
    (pc \in {"align", "eval_convert"} /\ TaskName(FLAGS) \in HasDevtest) =>
        SelectSeq(eval_examples, LAMBDA e : ~IsPadding(e))
            = ExamplesOfSplit(TaskName(FLAGS), FLAGS.data_dir, FLAGS.eval_split)

\* The '*.index' files of the listing of an evaluation, in listing order.
IndexFiles == SelectSeq(call.filenames, IsIndexFile)

\* The checkpoints evaluated so far, in the order of their evaluation.
Evaluated ==
    LET runs_logged == SelectSeq(ret.log, LAMBDA e : e[1] = "Eval result")
    IN  [k \in DOMAIN runs_logged |-> runs_logged[k][2]["path"][1]]

\* C29: with one or more '*.index' files in model_dir, each named with a
\* global step, the evaluation does not fail; when it is done and
\* eval_all_ckpt is false one checkpoint was evaluated, one of the greatest
\* global step; when eval_all_ckpt is true every checkpoint was evaluated
\* exactly once, in rising order of the global steps.
C29_CheckpointSelection ==
    (call.fn = "evaluate" /\ IndexFiles # <<>>
     /\ \A k \in DOMAIN IndexFiles : HasStep(IndexFiles[k])) =>
        /\ ret.pc # "failed"
        /\ ret.pc = "done" =>
              IF ~call.eval_all_ckpt
              THEN /\ Len(Evaluated) = 1
                   /\ Evaluated[1] \in Range(IndexFiles)
                   /\ \A k \in DOMAIN IndexFiles :
                         IndexFiles[k].step[1] <= Evaluated[1].step[1]
              ELSE /\ Len(Evaluated) = Len(IndexFiles)
                   /\ \A f \in Range(IndexFiles) :
                         Cardinality({k \in DOMAIN Evaluated : Evaluated[k] = f}) = 1
                   /\ \A j, k \in DOMAIN Evaluated :
                         j < k => Evaluated[j].step[1] <= Evaluated[k].step[1]

\* C29 witness: three checkpoints listed with the steps 10, 2, 9 have all
\* been evaluated, in the order 2, 9, 10.
C29_Witness ==
    /\ call.fn = "evaluate"
    /\ call.eval_all_ckpt
    /\ ret.pc = "done"
    /\ [k \in DOMAIN IndexFiles |-> IndexFiles[k].step] = <<(<<10>>), (<<2>>), (<<9>>)>>
    /\ [k \in DOMAIN Evaluated |-> Evaluated[k].step] = <<(<<2>>), (<<9>>), (<<10>>)>>

\* The number of elements the loop has to append to n elements for batch
\* size b.
PaddingNeeded(n, b) == (b - (n % b)) % b

\* The loop has appended at most PaddingNeeded elements, all of them
\* PaddingInputExample; when it has ended it has appended exactly that many,
\* fewer than the batch size, and none to a list whose length is a multiple
\* of the batch size.
AlignerCount ==
    LET n == Len(LoadedEval)
        b == FLAGS.eval_batch_size
    IN  /\ pc = "align" =>
              /\ Len(eval_examples) - n \in 0..PaddingNeeded(n, b)
              /\ SubSeq(eval_examples, 1, n) = LoadedEval
              /\ NumPadding(eval_examples) = Len(eval_examples) - n
        /\ pc = "eval_convert" =>
              /\ Len(eval_examples) = n + PaddingNeeded(n, b)
              /\ NumPadding(eval_examples) = PaddingNeeded(n, b)
              /\ PaddingNeeded(n, b) < b
              /\ n % b = 0 => eval_examples = LoadedEval

\* C30: for a list of n >= 0 examples and a batch size b > 0 the padding
\* loop ends, and it ends having appended exactly (b - n mod b) mod b
\* PaddingInputExample elements, fewer than b, none when n is a multiple
\* of b.
C30_AlignerTerminates ==
    /\ []AlignerCount
    /\ (pc = "align") ~> (pc = "eval_convert")

\* C30 witness: the loop has ended after appending 3 elements to a list of
\* 5 for batch size 4, the most a batch size of 4 asks for.
C30_Witness ==
    /\ pc = "eval_convert"
    /\ FLAGS.eval_batch_size = 4
    /\ Len(LoadedEval) = 5
    /\ Len(eval_examples) = 8
    /\ \A i \in 6..8 : IsPadding(eval_examples[i])
====
